---------------------------- MODULE Spec2Model ----------------------------
(***************************************************************************)
(* A model of the client core of 3xui-api-client (src/index.js), its      *)
(* session manager with the default memory store (src/unnamed/part_007)   *)
(* and the login rate limiter of SecurityMonitor                          *)
(* (src/src/security/SecurityEnhancer.js).                                *)
(*                                                                         *)
(* One ThreeXUI instance is shared by a set of logical callers.  Each     *)
(* action is the code that runs between two suspension points (await) of  *)
(* one caller.  Time is Date.now() in seconds.  The panel is the          *)
(* environment: it answers POST /login and the operation calls.           *)
(***************************************************************************)
EXTENDS Integers, Sequences, FiniteSets

\* ------------------------------------------------------------------ bounds
NumCallers == 2
MaxTicks == 2
MaxCalls == 2
MaxSoloCalls == 4
\* options.maxLoginAttemptsPerHour (index.js:59, default 10): the model
\* configures a small limit so that the limiter is reached.
maxLoginAttemptsPerHour == 2
\* The store used directly: the seconds explored and the greatest ttl.
MaxStoreTicks == 3
MaxTTL == 2
\* options.maxRequestsPerMinute (index.js:58, default 60), configured small.
maxRequestsPerMinute == 2
\* The calls and the passages of time made with a monitor used directly.
MaxMonitorSteps == 6
\* The calls made with a monitor whose activity buffer is filled.
MaxLogged == 204
\* The most properties of an object of a config.
MaxProps == 2
\* The calls of the operations that take a config.
MaxConfigCalls == 2
\* The most characters after the scheme of a URL.
MaxUrlLen == 3
\* The seeds of the random bytes.
MaxSeed == 1
\* The passwordLength options drawn, besides 20.
MaxPasswordLen == 2
\* The calls of set made with a memory store used directly.
MaxSets == 3
\* The calls of login made by the clients that share a store.
MaxClientLogins == 2
\* hasValidSession is asked at sessionTTL .. sessionTTL + MaxSkew seconds.
MaxSkew == 2
\* The longest user name drawn.
MaxNameLen == 3

\* ------------------------------------------------------- program constants
maxLoginRetries == 3
minPort == 1
maxPort == 65535
requestWindow == 60
maxUsernameLength == 100
sessionTTL == 3600
refreshThresholdPct == 80
loginWindow == 3600
maxActivities == 200

Callers == 1..NumCallers
\* One step of time takes a fresh session exactly to its refresh threshold;
\* two steps take it past its expiry and past the login window.
TickSeconds == (sessionTTL * refreshThresholdPct) \div 100
StartTime == TickSeconds
MaxTime == StartTime + MaxTicks * TickSeconds

VARIABLES
    now,             \* Date.now(), in seconds
    cookie,          \* this.cookie / api.defaults.headers.Cookie; 0 is null
    loginMutex,      \* this.loginMutex
    loginRetryCount, \* this.loginRetryCount
    loginLog,        \* securityMonitor.loginLog entry of this client's identifier
    activities,      \* securityMonitor.activities: the types of its events
    cache,           \* the store's entry of this client's session key
    backend,         \* the kind of SessionStore the SessionManager was built with
    storeUp,         \* the backend of a remote store answers
    slot,            \* the store's entry of a key that is set and got directly
    put,             \* the last set(key, value, ttl) made directly, and when
    got,             \* the answer of the last get(key) made directly, and when
    arg,             \* the input of a function that is applied on its own
    ans,             \* <<the function's answer>> (<<>> before it is applied)
    monitor,         \* a SecurityMonitor that is used directly
    mem,             \* a MemorySessionStore and the timeouts it has pending
    clients,         \* the clients that share a session manager built on mem
    issued,          \* tokens the panel has issued so far
    loggedOut,       \* logout() has resolved and no login has started since
    refused,         \* the panel has refused a login, or an operation with a token
    calls,           \* invocations of the public API so far
    pc,              \* where each caller is suspended
    frame,           \* each caller's local variables
    obs,             \* what each caller's current (or last) invocation has done
    prev             \* obs of each caller's previous invocation

vars == <<now, cookie, loginMutex, loginRetryCount, loginLog, activities, cache,
          backend, storeUp, slot, put, got, arg, ans, monitor, mem,
          clients, issued,
          loggedOut,
          refused, calls, pc, frame, obs, prev>>

\* --------------------------------------------------------------- the store
\* SessionManager constructor: the four kinds of store.
Backends == {"memory", "redis", "database", "custom"}

storeVars ==
    <<backend, storeUp, slot, put, got, arg, ans, monitor, mem, clients>>

\* A cache entry {value: {cookie, createdAt, ...}, expires}; cookie 0: no entry.
NoItem == [cookie |-> 0, createdAt |-> 0, expires |-> 0]

\* MemorySessionStore.get: an entry whose expiry has passed reads as null.
StoreGet(item, t) ==
    IF item.cookie = 0 \/ item.expires <= t THEN NoItem ELSE item

\* The cache after MemorySessionStore.get: an expired entry is deleted.
StoreAfterGet(item, t) ==
    IF item.cookie # 0 /\ item.expires <= t THEN NoItem ELSE item

\* A storeSession whose entry expires at once (a time-to-live of zero).
StoreSession_NoTTL(tok, t) ==
    [cookie |-> tok, createdAt |-> t, expires |-> t]

\* SessionManager.storeSession over MemorySessionStore.set.
StoreSession(tok, t) ==
    [cookie |-> tok, createdAt |-> t, expires |-> t + sessionTTL]

\* A shouldRefreshSession that asks for an age beyond the threshold.
ShouldRefreshSession_Beyond(session, t) ==
    \/ session.createdAt = 0
    \/ (t - session.createdAt) * 100 > sessionTTL * refreshThresholdPct

\* SessionManager.shouldRefreshSession
ShouldRefreshSession(session, t) ==
    \/ session.createdAt = 0
    \/ (t - session.createdAt) * 100 >= sessionTTL * refreshThresholdPct

\* SessionManager.hasValidSession, for either setting of autoRefresh; session
\* is the answer of getSession.
HasValidSessionWith(autoRefresh, session, t) ==
    IF session.cookie = 0 THEN FALSE
    ELSE IF autoRefresh /\ ShouldRefreshSession(session, t) THEN FALSE
    ELSE TRUE

\* SessionManager.hasValidSession (autoRefresh is on by default)
HasValidSession(item, t) ==
    LET session == StoreGet(item, t)
    IN  session.cookie # 0 /\ ~ShouldRefreshSession(session, t)

\* store.get as the SessionManager sees it.  The remote stores catch the
\* errors of their backend and answer null; they leave expiry to the backend.
BackendGet(item, t) ==
    IF backend # "memory" /\ ~storeUp THEN NoItem ELSE StoreGet(item, t)

BackendAfterGet(item, t) ==
    IF backend = "memory" THEN StoreAfterGet(item, t) ELSE item

\* store.clear exists on the SessionStore subclasses; CustomSessionHandler
\* defines get, set, delete and validate only.
StoreHasClear(b) == b # "custom"

\* store.clear: the remote stores catch and drop the errors of their backend.
BackendAfterClear(item) ==
    IF backend = "custom" \/ (backend # "memory" /\ ~storeUp)
    THEN item ELSE NoItem

\* store.delete: the remote stores catch and drop the errors of their backend.
BackendAfterDelete(item) ==
    IF backend # "memory" /\ ~storeUp THEN item ELSE NoItem

\* ------------------------------------------- the store, used directly
\* The values handed to set(key, value, ttl): an object of strings and finite
\* numbers, one that holds a Date, one that holds NaN.
Values == {"plain", "date", "nan"}

\* JSON.stringify: a Date is written as its ISO string, NaN as null.
JsonStringify(v) ==
    CASE v = "plain" -> "text(plain)"
      [] v \in {"date", "isoString"} -> "text(isoString)"
      [] OTHER -> "text(null)"

\* JSON.parse
JsonParse(text) ==
    CASE text = "text(plain)" -> "plain"
      [] text = "text(isoString)" -> "isoString"
      [] OTHER -> "nullNumber"

\* The Redis and database stores keep the JSON text of the value; the memory
\* store keeps the value; the custom handler passes it to the user's setSession.
Encode(b, v) == IF b \in {"redis", "database"} THEN JsonStringify(v) ELSE v

Decode(b, kept) == IF b \in {"redis", "database"} THEN JsonParse(kept) ELSE kept

NoSlot == [kept |-> "none", expires |-> 0]

\* An expiry that has already passed when the entry is written.
ExpiresAt_Now(ttl, t) == IF ttl > 0 THEN t ELSE 0

\* set: expires = ttl > 0 ? Date.now() + ttl * 1000 : null (0 is null).
ExpiresAt(ttl, t) == IF ttl > 0 THEN t + ttl ELSE 0

\* store.set(key, value, ttl)
SlotSet(b, v, ttl, t) == [kept |-> Encode(b, v), expires |-> ExpiresAt(ttl, t)]

Expired(item, t) == item.expires # 0 /\ item.expires <= t

\* A get that answers with whatever entry it finds.
SlotGet_NoExpiry(b, item, t) ==
    IF item.kept = "none" THEN "null" ELSE Decode(b, item.kept)

\* store.get(key): null for an absent or expired entry.
SlotGet(b, item, t) ==
    IF item.kept = "none" \/ Expired(item, t)
    THEN "null" ELSE Decode(b, item.kept)

\* ------------------------------------------------------- the memory store
\* new MemorySessionStore(): cache and timers are Maps; pending holds the
\* timeouts that are scheduled; sets, cancelled and last record what was
\* done with the store. The gen of an entry is the number of the set that
\* wrote it, which is also the id of the timeout that set scheduled.
NewMemoryStore ==
    [cache |-> <<>>, timers |-> <<>>, pending |-> {}, sets |-> 0,
     cancelled |-> 0,
     last |-> [op |-> "none", key |-> "none", fired |-> 0, removed |-> 0,
               answer |-> <<>>]]

\* A Map without a key, and with a key set.
MapDelete(map, key) == [k \in DOMAIN map \ {key} |-> map[k]]
MapPut(map, key, v) ==
    [k \in DOMAIN map \cup {key} |-> IF k = key THEN v ELSE map[k]]

\* A clearTimeout that leaves the timeout scheduled.
ClearTimeout_Ignored(pending, id) == pending

\* clearTimeout(timer)
ClearTimeout(pending, id) == {timer \in pending : timer.id # id}

\* The timeouts left once the timer kept for the key, if any, is cleared.
ClearedFor(m, key) ==
    IF key \in DOMAIN m.timers THEN ClearTimeout(m.pending, m.timers[key])
    ELSE m.pending

\* MemorySessionStore.set(key, value, ttl)
MemorySet(m, key, value, ttl, t) ==
    [m EXCEPT
        !.cache = MapPut(@, key, [value |-> value, expires |-> ExpiresAt(ttl, t),
                                  gen |-> m.sets + 1]),
        !.pending = IF ttl > 0
                    THEN ClearedFor(m, key)
                         \cup {[id |-> m.sets + 1, key |-> key, due |-> t + ttl]}
                    ELSE ClearedFor(m, key),
        !.timers = IF ttl > 0 THEN MapPut(@, key, m.sets + 1) ELSE @,
        !.sets = @ + 1,
        !.cancelled = @ + Cardinality(m.pending \ ClearedFor(m, key))]

\* MemorySessionStore.delete(key)
MemoryDelete(m, key) ==
    [m EXCEPT
        !.cache = MapDelete(@, key),
        !.pending = ClearedFor(m, key),
        !.timers = MapDelete(@, key),
        !.cancelled = @ + Cardinality(m.pending \ ClearedFor(m, key))]

\* The timeouts left once every timer kept by the store is cleared.
ClearedAll(m) ==
    {timer \in m.pending :
        \A k \in DOMAIN m.timers : timer \in ClearTimeout(m.pending, m.timers[k])}

\* MemorySessionStore.clear()
MemoryClear(m) ==
    [m EXCEPT
        !.cache = <<>>,
        !.pending = ClearedAll(m),
        !.timers = <<>>,
        !.cancelled = @ + Cardinality(m.pending \ ClearedAll(m))]

\* What MemorySessionStore.get(key) answers: <<>> is null.
MemoryGet(m, key, t) ==
    IF key \notin DOMAIN m.cache \/ Expired(m.cache[key], t) THEN <<>>
    ELSE <<m.cache[key].value>>

\* The store after get(key): an expired entry is deleted.
MemoryAfterGet(m, key, t) ==
    IF key \in DOMAIN m.cache /\ Expired(m.cache[key], t)
    THEN MemoryDelete(m, key) ELSE m

\* The callback of a timeout runs: this.delete(key).
MemoryTimeout(m, timer) ==
    MemoryDelete([m EXCEPT !.pending = @ \ {timer}], timer.key)

\* The clients that share one session manager: the first two are built with
\* the same baseURL and username and with different passwords, of which the
\* panel knows the first; the third has a username of its own.
ClientOf ==
    <<[baseURL |-> <<"h", "t", "t", "p", ":", "/", "/", "h">>,
       username |-> <<"u">>, password |-> <<"a">>],
      [baseURL |-> <<"h", "t", "t", "p", ":", "/", "/", "h">>,
       username |-> <<"u">>, password |-> <<"b">>],
      [baseURL |-> <<"h", "t", "t", "p", ":", "/", "/", "h">>,
       username |-> <<"8">>, password |-> <<"a">>]>>

\* The fields of a client after its constructor; calls, forced and last
\* record what was done with it.
NewClients ==
    [i \in DOMAIN ClientOf |->
        [cookie |-> 0, loginLog |-> <<>>, activities |-> <<>>,
         loginRetryCount |-> 0, pc |-> "idle", calls |-> 0,
         forced |-> FALSE,
         last |-> [result |-> "none", fromCache |-> FALSE]]]

\* ------------------------------------------------------- the rate limiter
Prune(log, t) == SelectSeq(log, LAMBDA ts : t - ts <= loginWindow)

\* A check that leaves the attempt off the ledger.
LedgerAfterCheck_Unrecorded(log, t) == Prune(log, t)

\* The ledger after checkRateLimit(identifier, 'login')
LedgerAfterCheck(log, t) == Append(Prune(log, t), t)

\* A limiter that already rejects the attempt that reaches the limit.
RateAllowed_Strict(log, t) ==
    Len(LedgerAfterCheck(log, t)) < maxLoginAttemptsPerHour

\* The answer of checkRateLimit(identifier, 'login')
RateAllowed(log, t) == Len(LedgerAfterCheck(log, t)) <= maxLoginAttemptsPerHour

\* A buffer that is never trimmed.
LogSuspiciousActivity_Unbounded(acts, type) == Append(acts, type)

\* SecurityMonitor.logSuspiciousActivity: the buffer keeps its latest events.
LogSuspiciousActivity(acts, type) ==
    LET pushed == Append(acts, type)
    IN  IF Len(pushed) > maxActivities THEN Tail(pushed) ELSE pushed

\* ----------------------------------------- the rate limiter, used directly
WindowOf(kind) == IF kind = "login" THEN loginWindow ELSE requestWindow

MaxOf(kind) ==
    IF kind = "login" THEN maxLoginAttemptsPerHour ELSE maxRequestsPerMinute

\* log.get(key) || []
MapGet(log, key) == IF key \in DOMAIN log THEN log[key] ELSE <<>>

\* A filter that drops the entry whose age is exactly the window.
Recent_Strict(arr, windowMs, t) == SelectSeq(arr, LAMBDA ts : t - ts < windowMs)

\* arr.filter(ts => now - ts <= windowMs)
Recent(arr, windowMs, t) == SelectSeq(arr, LAMBDA ts : t - ts <= windowMs)

\* SecurityMonitor._prune: every ledger is filtered, an empty one is deleted.
PruneAll(log, windowMs, t) ==
    [k \in {key \in DOMAIN log : Recent(log[key], windowMs, t) # <<>>} |->
        Recent(log[k], windowMs, t)]

\* A ledger that takes the current attempt only while it is under the limit.
Pushed_AllowedOnly(log, identifier, kind, t) ==
    IF Len(Recent(MapGet(log, identifier), WindowOf(kind), t)) < MaxOf(kind)
    THEN Append(Recent(MapGet(log, identifier), WindowOf(kind), t), t)
    ELSE Recent(MapGet(log, identifier), WindowOf(kind), t)

\* The ledger of the identifier with the current attempt on it.
Pushed(log, identifier, kind, t) ==
    Append(Recent(MapGet(log, identifier), WindowOf(kind), t), t)

\* The Map of the kind after checkRateLimit(identifier, kind): log.set, then
\* _prune.
LogAfterCheck(log, identifier, kind, t) ==
    PruneAll([k \in DOMAIN log \cup {identifier} |->
                 IF k = identifier THEN Pushed(log, identifier, kind, t)
                 ELSE log[k]],
             WindowOf(kind), t)

\* The answer of checkRateLimit(identifier, kind).
CheckAllowed(log, identifier, kind, t) ==
    Len(Pushed(log, identifier, kind, t)) <= MaxOf(kind)

\* new SecurityMonitor(); checks, logged, steps, last and history record
\* what was done with it: history holds every check made, in order.
NewMonitor ==
    [requestLog |-> <<>>, loginLog |-> <<>>, activities |-> <<>>,
     checks |-> 0, logged |-> 0, steps |-> 0,
     last |-> [kind |-> "none", identifier |-> "none", allowed |-> TRUE],
     history |-> <<>>]

LogOf(m, kind) == IF kind = "login" THEN m.loginLog ELSE m.requestLog

\* The activity record of the n-th logSuspiciousActivity(type).
ActivityEvent(n, type) == [id |-> n, type |-> type]

\* --------------------------------------------------------------- the panel
LoginResponses == {"ok", "nocookie", "rejected", "timeout"}
OpResponses == {"ok", "401", "error"}

\* The panel never serves an operation that carries no token.
PanelOp(tok) == IF tok = 0 THEN {"401", "error"} ELSE OpResponses

\* ------------------------------------------------------------ the callers
EnsurePhases == {"pre", "retry"}

NoFrame == [forceRefresh |-> FALSE, phase |-> "none", valid |-> FALSE,
            pending |-> NoItem,
            existingSession |-> NoItem]

FreshObs(k, f, s) ==
    [kind |-> k, force |-> f, attempts |-> 0, logins |-> 0, netCalls |-> 0,
     reauth |-> "none",
     got401 |-> FALSE, awaited |-> "none", result |-> "none", sentWith |-> 0,
     refreshDue |-> FALSE, cacheStale |-> FALSE, elapsed |-> FALSE,
     inSuccession |-> s]

\* What is kept of an invocation once the caller has begun the next one.
Summary(o) ==
    [kind |-> o.kind, force |-> o.force, result |-> o.result,
     netCalls |-> o.netCalls]

\* No function has been applied on its own.
Unapplied == arg = <<>> /\ ans = <<>>

InitClient ==
    /\ now = StartTime
    /\ cookie = 0
    /\ loginMutex = FALSE
    /\ loginRetryCount = 0
    /\ loginLog = <<>>
    /\ activities = <<>>
    /\ cache = NoItem
    /\ issued = 0
    /\ loggedOut = FALSE
    /\ slot = NoSlot
    /\ put = [value |-> "none", ttl |-> 0, at |-> 0]
    /\ got = [value |-> "unasked", at |-> 0, lazy |-> FALSE]
    /\ monitor = NewMonitor
    /\ mem = NewMemoryStore
    /\ clients = NewClients
    /\ refused = FALSE
    /\ calls = 0
    /\ pc = [c \in Callers |-> "idle"]
    /\ frame = [c \in Callers |-> NoFrame]
    /\ obs = [c \in Callers |-> FreshObs("none", FALSE, FALSE)]
    /\ prev = [c \in Callers |-> Summary(FreshObs("none", FALSE, FALSE))]

\* A client built with the default session manager: the memory store.
Init ==
    /\ InitClient
    /\ Unapplied
    /\ backend = "memory"
    /\ storeUp = TRUE

\* A client built with any of the four stores; the backend of a remote store
\* is reachable, or it is not.
BackendInit ==
    /\ InitClient
    /\ Unapplied
    /\ backend \in Backends
    /\ storeUp \in (IF backend = "memory" THEN {TRUE} ELSE BOOLEAN)

\* A client built with a remote store whose backend is unreachable.
OutageInit ==
    /\ InitClient
    /\ Unapplied
    /\ backend \in Backends \ {"memory"}
    /\ storeUp = FALSE

\* A login that never consults the session cache.
ConsultsCache_Never(forceRefresh) == FALSE

\* login(forceRefresh) consults the session cache only when not forced.
ConsultsCache(forceRefresh) == ~forceRefresh

\* _ensureAuthenticated: this.loginMutex = true
AcquireMutex(phase, m) == IF phase \in EnsurePhases THEN TRUE ELSE m

\* An _ensureAuthenticated without its finally block.
ReleaseMutex_Leak(phase, m) == m

\* _ensureAuthenticated: finally { this.loginMutex = false }
ReleaseMutex(phase, m) == IF phase \in EnsurePhases THEN FALSE ELSE m

\* A retry that is handled like the first call.
StageOf_First(phase) == "r_wait1"

\* The stage an operation call of the given phase waits in.
StageOf(phase) == IF phase = "retry" THEN "r_wait2" ELSE "r_wait1"

\* A login() that reports its failures as successes.
ResultOf_Silent(outcome) ==
    CASE outcome = "cache" -> "fromCache"
      [] outcome = "limited" -> "rateLimited"
      [] OTHER -> "ok"

\* What the caller of login() sees for each way a login ends.
ResultOf(outcome) ==
    CASE outcome = "cache" -> "fromCache"
      [] outcome = "net" -> "ok"
      [] outcome = "limited" -> "rateLimited"
      [] OTHER -> "loginFailed"

\* The invocation of caller c returns or throws res.  What was observed of
\* its calls in flight (awaited, sentWith) is dropped.
Finish(c, res, O) ==
    /\ pc' = [pc EXCEPT ![c] = "idle"]
    /\ frame' = [frame EXCEPT ![c] = NoFrame]
    /\ obs' = [O EXCEPT ![c] = [@ EXCEPT !.result = res, !.awaited = "none",
                                         !.sentWith = 0]]

\* A dispatch that sends the operation call twice.
Dispatch_Twice(c, stage, tok, O) ==
    /\ pc' = [pc EXCEPT ![c] = stage]
    /\ frame' = [frame EXCEPT ![c] = NoFrame]
    /\ obs' = [O EXCEPT ![c] = [@ EXCEPT !.attempts = @ + 2, !.sentWith = tok]]

\* this.api.request(...): the operation call goes out with the token tok.
Dispatch(c, stage, tok, O) ==
    /\ pc' = [pc EXCEPT ![c] = stage]
    /\ frame' = [frame EXCEPT ![c] = NoFrame]
    /\ obs' = [O EXCEPT ![c] = [@ EXCEPT !.attempts = @ + 1, !.sentWith = tok]]

\* The callers in the polling loop see the outcome of the login that resolves.
Notify(O, waited, outcome) ==
    [d \in Callers |->
        IF waited /\ pc[d] = "r_poll"
        THEN [O[d] EXCEPT !.awaited = outcome]
        ELSE O[d]]

\* login() returns or throws; control is back in its caller.
LoginReturns(c, phase, outcome, tok, O) ==
    LET O1 == Notify(O, phase \in EnsurePhases /\ loginMutex, outcome)
        O2 == IF phase = "retry"
              THEN [O1 EXCEPT ![c] = [@ EXCEPT !.reauth = outcome]]
              ELSE O1
    IN  /\ loginMutex' = ReleaseMutex(phase, loginMutex)
        /\ IF phase \in EnsurePhases /\ outcome \in {"cache", "net"}
           THEN Dispatch(c, StageOf(phase), tok, O2)
           ELSE Finish(c, ResultOf(outcome), O2)

\* login(forceRefresh) up to its first suspension point; it is one more of
\* the logins that the invocation has started.
LoginBegin(c, f, phase, O) ==
    LET Q == [O EXCEPT ![c] = [@ EXCEPT !.logins = @ + 1]]
    IN
        /\ loginLog' = LedgerAfterCheck(loginLog, now)
        /\ loggedOut' = FALSE
        /\ IF ~RateAllowed(loginLog, now)
           THEN /\ activities' =
                       LogSuspiciousActivity(activities, "rate_limit_exceeded")
                /\ IF phase \in EnsurePhases
                   THEN /\ loginMutex' = AcquireMutex(phase, loginMutex)
                        /\ pc' = [pc EXCEPT ![c] = "l_rej"]
                        /\ frame' = [frame EXCEPT ![c] =
                               [NoFrame EXCEPT !.forceRefresh = f, !.phase = phase]]
                        /\ obs' = Q
                   ELSE LoginReturns(c, phase, "limited", cookie, Q)
                /\ UNCHANGED <<loginRetryCount, cache>>
           ELSE /\ loginRetryCount' = loginRetryCount + 1
                /\ UNCHANGED activities
                /\ loginMutex' = AcquireMutex(phase, loginMutex)
                /\ IF ConsultsCache(f)
                   THEN LET session == BackendGet(cache, now)
                        IN  /\ cache' = BackendAfterGet(cache, now)
                            /\ pc' = [pc EXCEPT ![c] = "l_got"]
                            /\ frame' = [frame EXCEPT ![c] =
                                   [NoFrame EXCEPT !.forceRefresh = f,
                                                   !.phase = phase,
                                                   !.existingSession = session]]
                            /\ obs' = [Q EXCEPT ![c] = [@ EXCEPT !.cacheStale =
                                   session.cookie # 0
                                   /\ ShouldRefreshSession(session, now)]]
                   ELSE /\ pc' = [pc EXCEPT ![c] = "l_net"]
                        /\ frame' = [frame EXCEPT ![c] =
                               [NoFrame EXCEPT !.forceRefresh = f,
                                               !.phase = phase]]
                        /\ obs' = [Q EXCEPT ![c] = [@ EXCEPT !.netCalls = @ + 1]]
                        /\ UNCHANGED cache

\* _ensureAuthenticated(forceRefresh)
EnsureAuthenticated(c, f, phase, O) ==
    IF loginMutex
    THEN /\ pc' = [pc EXCEPT ![c] = "r_poll"]
         /\ frame' = [frame EXCEPT ![c] = [NoFrame EXCEPT !.phase = phase]]
         /\ obs' = IF phase = "retry"
                   THEN [O EXCEPT ![c] = [@ EXCEPT !.reauth = "waited"]]
                   ELSE O
         /\ UNCHANGED <<loginMutex, loginRetryCount, loginLog, activities, loggedOut, cache>>
    ELSE LoginBegin(c, f, phase, O)

\* Callers are interchangeable: they make their first call in the order of
\* their numbers.  The calls made in all are bounded by MaxCalls, and by
\* MaxSoloCalls while a single caller has made them all.
MayCall(c) ==
    /\ pc[c] = "idle"
    /\ \A d \in Callers : d < c => obs[d].kind # "none"
    /\ \/ calls < MaxCalls
       \/ calls < MaxSoloCalls /\ \A d \in Callers \ {c} : obs[d].kind = "none"

\* ---------------------------------------------------------------- actions
\* _request up to its first await.
RequestBegins(c) ==
    /\ MayCall(c)
    /\ calls' = calls + 1
    /\ prev' = [prev EXCEPT ![c] = Summary(obs[c])]
    /\ LET O == [obs EXCEPT ![c] = FreshObs("request", FALSE, ~obs[c].elapsed)]
       IN  IF loginMutex
           THEN /\ Dispatch(c, "r_wait1", cookie, O)
                /\ UNCHANGED cache
           ELSE LET session == BackendGet(cache, now)
                IN  /\ cache' = BackendAfterGet(cache, now)
                    /\ pc' = [pc EXCEPT ![c] = "r_checked"]
                    /\ frame' = [frame EXCEPT ![c] =
                           [NoFrame EXCEPT !.valid = HasValidSession(session, now)]]
                    /\ obs' = [O EXCEPT ![c] = [@ EXCEPT !.refreshDue =
                           session.cookie # 0
                           /\ ShouldRefreshSession(session, now)]]
    /\ UNCHANGED <<now, cookie, loginMutex, loginRetryCount, loginLog, activities, loggedOut, issued,
                   refused>>

\* A caller invokes a wrapped operation.
CallRequest(c) ==
    /\ RequestBegins(c)
    /\ UNCHANGED storeVars

\* _request resumes with the answer of hasValidSession.
RequestChecked(c) ==
    /\ pc[c] = "r_checked"
    /\ IF ~frame[c].valid \/ (~loginMutex /\ cookie = 0)
       THEN EnsureAuthenticated(c, FALSE, "pre", obs)
       ELSE /\ Dispatch(c, "r_wait1", cookie, obs)
            /\ UNCHANGED <<loginMutex, loginRetryCount, loginLog, activities, loggedOut, cache>>
    /\ UNCHANGED <<now, cookie, issued, refused, calls, prev>>
    /\ UNCHANGED storeVars

\* login(false) resumes with the answer of getSession.
LoginGotSession(c) ==
    /\ pc[c] = "l_got"
    /\ LET existingSession == frame[c].existingSession
       IN  IF existingSession.cookie # 0
           THEN /\ cookie' = existingSession.cookie
                /\ loginRetryCount' = 0
                /\ LoginReturns(c, frame[c].phase, "cache",
                                existingSession.cookie, obs)
           ELSE /\ pc' = [pc EXCEPT ![c] = "l_net"]
                /\ obs' = [obs EXCEPT ![c] = [@ EXCEPT !.netCalls = @ + 1]]
                /\ UNCHANGED <<cookie, loginRetryCount, loginMutex, frame>>
    /\ UNCHANGED <<now, loginLog, activities, loggedOut, cache, issued, refused, calls, prev>>
    /\ UNCHANGED storeVars

\* _ensureAuthenticated resumes with the rejection of the rate-limited login.
LoginRejected(c) ==
    /\ pc[c] = "l_rej"
    /\ LoginReturns(c, frame[c].phase, "limited", cookie, obs)
    /\ UNCHANGED <<now, cookie, loginRetryCount, loginLog, activities, loggedOut, cache, issued,
                   refused, calls, prev>>
    /\ UNCHANGED storeVars

\* The panel answers POST /login (or the call times out).
LoginResponse(c, r) ==
    /\ pc[c] = "l_net"
    /\ IF r = "ok"
       THEN /\ issued' = issued + 1
            /\ cookie' = issued + 1
            /\ IF backend = "memory"
               THEN /\ cache' = StoreSession(issued + 1, now)
                    /\ loginRetryCount' = 0
                    /\ LoginReturns(c, frame[c].phase, "net", issued + 1, obs)
               ELSE /\ pc' = [pc EXCEPT ![c] = "l_store"]
                    /\ frame' = [frame EXCEPT ![c] = [@ EXCEPT !.pending =
                                     StoreSession(issued + 1, now)]]
                    /\ UNCHANGED <<cache, loginRetryCount, loginMutex, obs>>
            /\ UNCHANGED <<refused, activities>>
       ELSE /\ LoginReturns(c, frame[c].phase, "failed", cookie, obs)
            /\ refused' = TRUE
            /\ activities' =
                   IF loginRetryCount >= maxLoginRetries
                   THEN LogSuspiciousActivity(activities,
                                              "multiple_failed_logins")
                   ELSE activities
            /\ UNCHANGED <<issued, cookie, cache, loginRetryCount>>
    /\ UNCHANGED <<now, loginLog, loggedOut, calls, prev>>
    /\ UNCHANGED storeVars

\* login resumes after storeSession on a remote store; an error of the store
\* is caught and the login goes on without the cache.
LoginStored(c) ==
    /\ pc[c] = "l_store"
    /\ cache' = IF storeUp THEN frame[c].pending ELSE cache
    /\ loginRetryCount' = 0
    /\ LoginReturns(c, frame[c].phase, "net", frame[c].pending.cookie, obs)
    /\ UNCHANGED <<now, cookie, loginLog, activities, loggedOut, issued, refused, calls,
                   prev>>
    /\ UNCHANGED storeVars

\* A caller in the polling loop of _ensureAuthenticated finds the mutex free.
PollExit(c) ==
    /\ pc[c] = "r_poll"
    /\ ~loginMutex
    /\ Dispatch(c, StageOf(frame[c].phase), cookie, obs)
    /\ UNCHANGED <<now, cookie, loginMutex, loginRetryCount, loginLog, activities, loggedOut, cache,
                   issued, refused, calls, prev>>
    /\ UNCHANGED storeVars

\* The panel answers the first call of the operation.
OpResponse(c, r) ==
    /\ pc[c] = "r_wait1"
    /\ r \in PanelOp(obs[c].sentWith)
    /\ refused' = (refused \/ (r # "ok" /\ obs[c].sentWith # 0))
    /\ CASE r = "ok" ->
              /\ loginRetryCount' = 0
              /\ Finish(c, "ok", obs)
              /\ UNCHANGED <<loginMutex, loginLog, activities, loggedOut, cache>>
         [] r = "401" /\ loginRetryCount < maxLoginRetries ->
              EnsureAuthenticated(c, TRUE, "retry",
                  [obs EXCEPT ![c] = [@ EXCEPT !.got401 = TRUE]])
         [] r = "401" /\ loginRetryCount >= maxLoginRetries ->
              /\ Finish(c, "maxRetries", obs)
              /\ UNCHANGED <<loginMutex, loginRetryCount, loginLog, activities, loggedOut, cache>>
         [] OTHER ->
              /\ Finish(c, "httpErr", obs)
              /\ UNCHANGED <<loginMutex, loginRetryCount, loginLog, activities, loggedOut, cache>>
    /\ UNCHANGED <<now, cookie, issued, calls, prev>>
    /\ UNCHANGED storeVars

\* The panel answers the retried call of the operation.
RetryResponse(c, r) ==
    /\ pc[c] = "r_wait2"
    /\ r \in PanelOp(obs[c].sentWith)
    /\ refused' = (refused \/ (r # "ok" /\ obs[c].sentWith # 0))
    /\ Finish(c, CASE r = "ok" -> "ok" [] r = "401" -> "http401"
                   [] OTHER -> "httpErr", obs)
    /\ UNCHANGED <<now, cookie, loginMutex, loginRetryCount, loginLog, activities, loggedOut, cache,
                   issued, calls, prev>>
    /\ UNCHANGED storeVars

\* A caller invokes login(forceRefresh) itself.
CallLogin(c, f) ==
    /\ MayCall(c)
    /\ calls' = calls + 1
    /\ prev' = [prev EXCEPT ![c] = Summary(obs[c])]
    /\ LoginBegin(c, f, "direct",
                  [obs EXCEPT ![c] = FreshObs("login", f, ~obs[c].elapsed)])
    /\ UNCHANGED <<now, cookie, issued, refused>>
    /\ UNCHANGED storeVars

\* A caller invokes logout().
CallLogout(c) ==
    /\ MayCall(c)
    /\ calls' = calls + 1
    /\ prev' = [prev EXCEPT ![c] = Summary(obs[c])]
    /\ cookie' = 0
    /\ loggedOut' = TRUE
    /\ cache' = BackendAfterDelete(cache)
    /\ Finish(c, "ok", [obs EXCEPT ![c] = FreshObs("logout", FALSE, ~obs[c].elapsed)])
    /\ UNCHANGED <<now, loginMutex, loginRetryCount, loginLog, activities, issued, refused>>
    /\ UNCHANGED storeVars

\* A caller invokes getSessionStats(): the statistics of the memory store, or
\* a message for the stores without getStats.
CallGetSessionStats(c) ==
    /\ MayCall(c)
    /\ calls' = calls + 1
    /\ prev' = [prev EXCEPT ![c] = Summary(obs[c])]
    /\ Finish(c, "ok",
              [obs EXCEPT ![c] = FreshObs("getSessionStats", FALSE, ~obs[c].elapsed)])
    /\ UNCHANGED <<now, cookie, loginMutex, loginRetryCount, loginLog,
                   activities, cache, issued, loggedOut, refused>>
    /\ UNCHANGED storeVars

\* A caller invokes isSessionValid(): hasValidSession over store.get.
CallIsSessionValid(c) ==
    /\ MayCall(c)
    /\ calls' = calls + 1
    /\ prev' = [prev EXCEPT ![c] = Summary(obs[c])]
    /\ cache' = BackendAfterGet(cache, now)
    /\ Finish(c, IF HasValidSession(BackendGet(cache, now), now)
                 THEN "valid" ELSE "invalid",
              [obs EXCEPT ![c] = FreshObs("isSessionValid", FALSE, ~obs[c].elapsed)])
    /\ UNCHANGED <<now, cookie, loginMutex, loginRetryCount, loginLog,
                   activities, issued, loggedOut, refused>>
    /\ UNCHANGED storeVars

\* A caller invokes clearAllSessions(): this.store.clear().
CallClearAllSessions(c) ==
    /\ MayCall(c)
    /\ calls' = calls + 1
    /\ prev' = [prev EXCEPT ![c] = Summary(obs[c])]
    /\ cache' = BackendAfterClear(cache)
    /\ Finish(c, IF StoreHasClear(backend) THEN "ok" ELSE "threw",
              [obs EXCEPT ![c] = FreshObs("clearAllSessions", FALSE, ~obs[c].elapsed)])
    /\ UNCHANGED <<now, cookie, loginMutex, loginRetryCount, loginLog,
                   activities, issued, loggedOut, refused>>
    /\ UNCHANGED storeVars

\* Time passes.  Its steps are explored between the calls, and during the
\* calls of a caller that is alone.
Tick ==
    /\ now < MaxTime
    /\ \/ \A c \in Callers : pc[c] = "idle"
       \/ \A c \in Callers \ {1} : obs[c].kind = "none"
    /\ now' = now + TickSeconds
    /\ obs' = [c \in Callers |-> [obs[c] EXCEPT !.elapsed = TRUE]]
    /\ UNCHANGED <<cookie, loginMutex, loginRetryCount, loginLog, activities, loggedOut, cache, issued,
                   refused, calls, pc, frame, prev>>
    /\ UNCHANGED storeVars

\* The eviction timer of the memory store fires.
EvictTimer ==
    /\ cache.cookie # 0
    /\ cache.expires <= now
    /\ cache' = NoItem
    /\ UNCHANGED <<now, cookie, loginMutex, loginRetryCount, loginLog, activities, loggedOut, issued,
                   refused, calls, pc, frame, obs, prev>>
    /\ UNCHANGED storeVars

\* POST /login calls made so far, while the panel has refused none.
NetLoginCalls == issued + Cardinality({c \in Callers : pc[c] = "l_net"})

Next ==
    \/ Tick
    \/ EvictTimer
    \/ \E c \in Callers : CallRequest(c)
    \/ \E c \in Callers : RequestChecked(c)
    \/ \E c \in Callers : LoginGotSession(c)
    \/ \E c \in Callers : LoginRejected(c)
    \/ \E c \in Callers, r \in LoginResponses : LoginResponse(c, r)
    \/ \E c \in Callers : PollExit(c)
    \/ \E c \in Callers, r \in OpResponses : OpResponse(c, r)
    \/ \E c \in Callers, r \in OpResponses : RetryResponse(c, r)
    \/ \E c \in Callers, f \in BOOLEAN : CallLogin(c, f)
    \/ \E c \in Callers : CallLogout(c)

Spec == Init /\ [][Next]_vars

\* One caller alone: calls follow one another, time passes at any point.
SeqNext ==
    \/ Tick
    \/ EvictTimer
    \/ CallRequest(1)
    \/ RequestChecked(1)
    \/ LoginGotSession(1)
    \/ LoginRejected(1)
    \/ \E r \in LoginResponses : LoginResponse(1, r)
    \/ \E r \in OpResponses : OpResponse(1, r)
    \/ \E r \in OpResponses : RetryResponse(1, r)
    \/ \E f \in BOOLEAN : CallLogin(1, f)
    \/ CallLogout(1)

SeqSpec == Init /\ [][SeqNext]_vars

\* ------------------------------------------------- the store, used directly
clientVars == <<cookie, loginMutex, loginRetryCount, loginLog, activities,
                cache, issued, loggedOut, refused, calls, pc, frame, obs, prev>>

\* A store of any kind whose backend is reachable.
StoreInit ==
    /\ InitClient
    /\ Unapplied
    /\ backend \in Backends
    /\ storeUp = TRUE

\* store.set(key, v, ttl)
StoreSet(v, ttl) ==
    /\ slot' = SlotSet(backend, v, ttl, now)
    /\ put' = [value |-> v, ttl |-> ttl, at |-> now]
    /\ got' = [value |-> "unasked", at |-> 0, lazy |-> FALSE]
    /\ UNCHANGED <<now, backend, storeUp, arg, ans, monitor, mem, clients>>
    /\ UNCHANGED clientVars

\* store.get(key); the memory store deletes the expired entry it finds.
StoreGetKey ==
    /\ got' = [value |-> SlotGet(backend, slot, now), at |-> now,
               lazy |-> slot.kept # "none" /\ Expired(slot, now)]
    /\ slot' = IF backend = "memory" /\ Expired(slot, now) THEN NoSlot ELSE slot
    /\ UNCHANGED <<now, backend, storeUp, put, arg, ans, monitor, mem, clients>>
    /\ UNCHANGED clientVars

\* The eviction timer of the memory store fires; Redis expires the key; the
\* database store's cleanup removes the row.
StoreTimer ==
    /\ slot.kept # "none"
    /\ Expired(slot, now)
    /\ slot' = NoSlot
    /\ UNCHANGED <<now, backend, storeUp, put, got, arg, ans, monitor, mem, clients>>
    /\ UNCHANGED clientVars

\* A second passes.
StoreTick ==
    /\ now < StartTime + MaxStoreTicks
    /\ now' = now + 1
    /\ UNCHANGED <<backend, storeUp, slot, put, got, arg, ans, monitor, mem, clients>>
    /\ UNCHANGED clientVars

StoreNext ==
    \/ \E v \in Values, ttl \in 0..MaxTTL : StoreSet(v, ttl)
    \/ StoreGetKey
    \/ StoreTimer
    \/ StoreTick

StoreSpec == StoreInit /\ [][StoreNext]_vars

\* The callers of a client built with any store, the introspection calls
\* included.
BackendNext ==
    \/ Tick
    \/ EvictTimer
    \/ \E c \in Callers : CallRequest(c)
    \/ \E c \in Callers : RequestChecked(c)
    \/ \E c \in Callers : LoginGotSession(c)
    \/ \E c \in Callers : LoginRejected(c)
    \/ \E c \in Callers, r \in LoginResponses : LoginResponse(c, r)
    \/ \E c \in Callers : LoginStored(c)
    \/ \E c \in Callers : PollExit(c)
    \/ \E c \in Callers, r \in OpResponses : OpResponse(c, r)
    \/ \E c \in Callers, r \in OpResponses : RetryResponse(c, r)
    \/ \E c \in Callers, f \in BOOLEAN : CallLogin(c, f)
    \/ \E c \in Callers : CallLogout(c)
    \/ \E c \in Callers : CallGetSessionStats(c)
    \/ \E c \in Callers : CallIsSessionValid(c)
    \/ \E c \in Callers : CallClearAllSessions(c)

BackendSpec == BackendInit /\ [][BackendNext]_vars

\* One caller makes requests, one after the other, while the backend of the
\* store is unreachable.
OutageNext ==
    \/ Tick
    \/ CallRequest(1)
    \/ RequestChecked(1)
    \/ LoginGotSession(1)
    \/ LoginRejected(1)
    \/ \E r \in LoginResponses : LoginResponse(1, r)
    \/ LoginStored(1)
    \/ \E r \in OpResponses : OpResponse(1, r)
    \/ \E r \in OpResponses : RetryResponse(1, r)

OutageSpec == OutageInit /\ [][OutageNext]_vars

\* ------------------------------------------ functions applied on their own
\* A function has been applied, and what it answered.
Applied(fn) == ans # <<>> /\ arg.fn = fn
Answer == ans[1]

\* The variables that applying a function leaves alone.
restVars ==
    <<now, backend, storeUp, slot, put, got, monitor, mem, clients, clientVars>>

\* Strings are sequences of characters.
Strings(chars, n) == UNION {[1..k -> chars] : k \in 0..n}

RECURSIVE TrimStart(_)
TrimStart(str) ==
    IF str # <<>> /\ Head(str) = " " THEN TrimStart(Tail(str)) ELSE str

RECURSIVE TrimEnd(_)
TrimEnd(str) ==
    IF str # <<>> /\ str[Len(str)] = " "
    THEN TrimEnd(SubSeq(str, 1, Len(str) - 1)) ELSE str

\* String.prototype.trim
Trim(str) == TrimStart(TrimEnd(str))

\* The characters of [\w.@+-] in the model: "8" and "u" are word characters.
LegalChars == {"8", "u", ".", "@", "+", "-"}
\* The answer of a function that throws.
Throws == <<"throws">>

\* A validateUsername that lets the colon through.
ValidateUsername_WithColon(username) ==
    IF Trim(username) = <<>> THEN Throws
    ELSE IF Len(Trim(username)) > maxUsernameLength THEN Throws
    ELSE IF \E i \in 1..Len(Trim(username)) :
                Trim(username)[i] \notin LegalChars \cup {":"} THEN Throws
    ELSE Trim(username)

\* InputValidator.validateUsername: the trimmed name, or an error for an
\* empty name, one longer than 100, or one with a character outside [\w.@+-].
ValidateUsername(username) ==
    IF Trim(username) = <<>> THEN Throws
    ELSE IF Len(Trim(username)) > maxUsernameLength THEN Throws
    ELSE IF \E i \in 1..Len(Trim(username)) :
                Trim(username)[i] \notin LegalChars THEN Throws
    ELSE Trim(username)

\* createHash('sha256').update(text).digest('hex'): the digest is a function
\* of the text alone; it is taken to be free of collisions.
Sha256Hex(text) == <<"sha256">> \o text

\* SessionManager.generateSessionKey
GenerateSessionKey(baseURL, username) ==
    <<"session_">> \o Sha256Hex(baseURL \o <<":">> \o username)

\* Two (baseURL, username) pairs, of any strings: a base URL with and
\* without a port, user names of up to MaxNameLen characters.
KeyPairs ==
    [baseURL : {<<"h", "t", "t", "p", ":", "/", "/", "h">>,
                <<"h", "t", "t", "p", ":", "/", "/", "h", ":", "8">>},
     username : Strings({"8", ":", " "}, MaxNameLen)]
KeyInputs == [fn : {"generateSessionKey"}, first : KeyPairs, second : KeyPairs]

\* The key of each pair is generated.
KeyGenerate ==
    /\ arg.fn = "generateSessionKey"
    /\ ans = <<>>
    /\ ans' =
        <<[first |-> GenerateSessionKey(arg.first.baseURL, arg.first.username),
          second |-> GenerateSessionKey(arg.second.baseURL, arg.second.username),
          again |-> GenerateSessionKey(arg.first.baseURL, arg.first.username)]>>
    /\ UNCHANGED <<arg, restVars>>

\* The ages of the records hasValidSession is asked about: new, at the
\* refresh threshold and each side of it, at the end of the TTL.
RefreshAge == (sessionTTL * refreshThresholdPct) \div 100

\* The store holds nothing, or a record of some age, with or without its
\* createdAt; autoRefresh is on or off.
ValidInputs ==
    [fn : {"hasValidSession"}, autoRefresh : BOOLEAN,
     at : sessionTTL..(sessionTTL + MaxSkew), held : BOOLEAN,
     age : {0, 1, RefreshAge - 1, RefreshAge, RefreshAge + 1,
            sessionTTL - 1, sessionTTL},
     stamped : BOOLEAN]

\* The entry of the store described by arg.
ValidItem ==
    IF arg.held
    THEN [cookie |-> 1,
          createdAt |-> IF arg.stamped THEN arg.at - arg.age ELSE 0,
          expires |-> arg.at - arg.age + sessionTTL]
    ELSE NoItem

\* hasValidSession(baseURL, username) is called.
ValidAsk ==
    /\ arg.fn = "hasValidSession"
    /\ ans = <<>>
    /\ ans' =
        <<HasValidSessionWith(arg.autoRefresh, StoreGet(ValidItem, arg.at), arg.at)>>
    /\ UNCHANGED <<arg, restVars>>

\* ----------------------------------------- the rate limiter, used directly
monitorRest ==
    <<backend, storeUp, slot, put, got, arg, ans, mem, clients, clientVars>>

\* securityMonitor.checkRateLimit(identifier, kind)
MonitorCheck(identifier, kind, bound) ==
    LET log == LogOf(monitor, kind)
        after == LogAfterCheck(log, identifier, kind, now)
        allowed == CheckAllowed(log, identifier, kind, now)
    IN  /\ monitor.steps < bound
        /\ monitor' =
              [monitor EXCEPT
                 !.requestLog = IF kind = "login" THEN @ ELSE after,
                 !.loginLog = IF kind = "login" THEN after ELSE @,
                 !.activities =
                     IF allowed THEN @
                     ELSE LogSuspiciousActivity(
                              @, ActivityEvent(monitor.logged + 1,
                                               "rate_limit_exceeded")),
                 !.logged = IF allowed THEN @ ELSE @ + 1,
                 !.checks = @ + 1,
                 !.steps = @ + 1,
                 !.last = [kind |-> kind, identifier |-> identifier,
                           allowed |-> allowed],
                 !.history = Append(@, [kind |-> kind,
                                        identifier |-> identifier,
                                        at |-> now, allowed |-> allowed])]
        /\ UNCHANGED now
        /\ UNCHANGED monitorRest

\* securityMonitor.logSuspiciousActivity(type)
MonitorLog(type, bound) ==
    /\ monitor.steps < bound
    /\ monitor' =
          [monitor EXCEPT
             !.activities = LogSuspiciousActivity(
                                @, ActivityEvent(monitor.logged + 1, type)),
             !.logged = @ + 1,
             !.steps = @ + 1]
    /\ UNCHANGED now
    /\ UNCHANGED monitorRest

\* Time passes: a second, the window of the requests, the window of the
\* logins.
MonitorTick(seconds) ==
    /\ monitor.steps < MaxMonitorSteps
    /\ now' = now + seconds
    /\ monitor' = [monitor EXCEPT !.steps = @ + 1]
    /\ UNCHANGED monitorRest

MonitorNext ==
    \/ \E identifier \in {"id1", "id2"}, kind \in {"general", "login"} :
           MonitorCheck(identifier, kind, MaxMonitorSteps)
    \/ \E seconds \in {1, requestWindow, loginWindow} : MonitorTick(seconds)

MonitorSpec == Init /\ [][MonitorNext]_vars

\* The activity buffer is filled by logSuspiciousActivity and by the
\* rejections of checkRateLimit, in any order.
LogNext ==
    \/ MonitorLog("rate_limit_exceeded", MaxLogged)
    \/ MonitorCheck("id1", "general", MaxLogged)

LogSpec == Init /\ [][LogNext]_vars

\* ------------------------------------------------- the validators of configs
\* JavaScript values: undefined, null, a string (its characters), a number,
\* a number that is no integer, a plain object (its properties in order,
\* each a key and a digit), an object that refers to itself, a function.
Undefined == [t |-> "undefined", s |-> <<>>, o |-> <<>>, n |-> 0]
Null == [t |-> "null", s |-> <<>>, o |-> <<>>, n |-> 0]
Str(chars) == [t |-> "string", s |-> chars, o |-> <<>>, n |-> 0]
Num(n) == [t |-> "number", s |-> <<>>, o |-> <<>>, n |-> n]
Fraction == [t |-> "fraction", s |-> <<>>, o |-> <<>>, n |-> 0]
Obj(props) == [t |-> "object", s |-> <<>>, o |-> props, n |-> 0]
Circular == [t |-> "circular", s |-> <<>>, o |-> <<>>, n |-> 0]
Function == [t |-> "function", s |-> <<>>, o |-> <<>>, n |-> 0]

\* The value converted to a boolean.
Truthy(v) ==
    /\ v.t \notin {"undefined", "null"}
    /\ ~(v.t = "string" /\ v.s = <<>>)
    /\ ~(v.t = "number" /\ v.n = 0)

Digits == <<"0", "1", "2", "3", "4", "5", "6", "7", "8", "9">>

\* JSON.stringify of the properties of a plain object.
RECURSIVE PropsText(_)
PropsText(props) ==
    IF props = <<>> THEN <<>>
    ELSE <<"\"", props[1][1], "\"", ":", Digits[props[1][2] + 1]>>
         \o (IF Len(props) > 1 THEN <<",">> ELSE <<>>)
         \o PropsText(Tail(props))

\* JSON.stringify(value) for a plain object or a digit.
StringifyText(v) ==
    IF v.t = "object" THEN <<"{">> \o PropsText(v.o) \o <<"}">>
    ELSE <<Digits[v.n + 1]>>

\* What a validator answers: the value it returns, or the error it throws.
Returns(value) == [error |-> "", value |-> value]
Fails(message) == [error |-> message, value |-> <<>>]

\* InputValidator._ensureJSONString
EnsureJSONString(v) ==
    IF v.t \in {"null", "undefined"} THEN Returns(Undefined)
    ELSE IF v.t = "string" THEN Returns(v)
    ELSE IF v.t = "circular"
         THEN Fails("Invalid configuration: unable to serialize to JSON")
    ELSE IF v.t = "function" THEN Returns(Undefined)
    ELSE Returns(Str(StringifyText(v)))

\* A _validatePort without the upper limit.
ValidatePort_NoUpperLimit(port) ==
    IF port.t # "number" \/ port.n < minPort
    THEN Fails("Invalid port: must be an integer between 1 and 65535")
    ELSE Returns(port)

\* InputValidator._validatePort
ValidatePort(port) ==
    IF port.t # "number" \/ port.n < minPort \/ port.n > maxPort
    THEN Fails("Invalid port: must be an integer between 1 and 65535")
    ELSE Returns(port)

JSONFields == {"settings", "streamSettings", "sniffing", "allocate"}

\* if (copy.f && typeof copy.f !== 'string') copy.f = _ensureJSONString(copy.f)
Converted(v) ==
    IF Truthy(v) /\ v.t # "string" THEN EnsureJSONString(v) ELSE Returns(v)

\* A conversion that skips the field.
ConvertedField_Skipped(config, field) == config[field]

\* The field of the copy after its conversion.
ConvertedField(config, field) == Converted(config[field]).value

\* InputValidator.validateInboundConfig
ValidateInboundConfig(config) ==
    IF config.port.t # "undefined" /\ ValidatePort(config.port).error # ""
    THEN ValidatePort(config.port)
    ELSE IF Truthy(config.protocol) /\ config.protocol.t # "string"
    THEN Fails("Invalid protocol")
    ELSE IF \E f \in JSONFields : Converted(config[f]).error # ""
    THEN Fails("Invalid configuration: unable to serialize to JSON")
    ELSE Returns([f \in DOMAIN config |->
                     IF f \in JSONFields THEN ConvertedField(config, f)
                     ELSE config[f]])

\* InputValidator.validateClientConfig
ValidateClientConfig(config) ==
    IF config.id.t \notin {"number", "fraction", "string"}
    THEN Fails("Invalid client config: id is required")
    ELSE IF Converted(config.settings).error # ""
    THEN Fails("Invalid configuration: unable to serialize to JSON")
    ELSE Returns([f \in DOMAIN config |->
                     IF f = "settings" THEN ConvertedField(config, f)
                     ELSE config[f]])

\* The values of the fields that the configs are made of: objects have up
\* to MaxProps properties.
FieldValues ==
    {Undefined, Null, Str(<<>>), Str(<<"{", "}">>), Circular, Function, Num(5)}
    \cup {Obj(props) :
            props \in UNION {[1..n -> {<<"a", 1>>, <<"b", 2>>}] : n \in 0..MaxProps}}

\* The config objects validateInboundConfig is given.
InboundInputs ==
    [fn : {"validateInboundConfig"},
     port : {Undefined, Null, Str(<<"4", "4", "3">>), Fraction, Num(-1), Num(0),
             Num(1), Num(443), Num(65535), Num(65536), Num(70000)},
     protocol : {Undefined, Str(<<"v">>), Num(5)},
     settings : FieldValues, streamSettings : FieldValues,
     sniffing : {Undefined, Obj(<<>>)},
     allocate : {Undefined, Str(<<"{", "}">>)}]

InboundValidate ==
    /\ arg.fn = "validateInboundConfig"
    /\ ans = <<>>
    /\ ans' =
        <<ValidateInboundConfig(arg)>>
    /\ UNCHANGED <<arg, restVars>>

\* ---------------------------------------- the operations that take a config
\* The validator of the operation.
ValidateFor(op, config) ==
    IF op \in {"addInbound", "updateInbound"}
    THEN ValidateInboundConfig(config)
    ELSE ValidateClientConfig(config)

\* The configs the operations are called with.
InboundConfig(port, settings) ==
    [port |-> port, protocol |-> Undefined, settings |-> settings,
     streamSettings |-> Undefined, sniffing |-> Undefined,
     allocate |-> Undefined]
InboundConfigs ==
    {InboundConfig(Num(443), Obj(<< <<"a", 1>> >>)),
     InboundConfig(Num(70000), Obj(<< <<"a", 1>> >>)),
     InboundConfig(Num(443), Circular)}
ClientConfigs ==
    {[id |-> Num(1), settings |-> Obj(<< <<"a", 1>> >>)],
     [id |-> Undefined, settings |-> Obj(<< <<"a", 1>> >>)],
     [id |-> Num(1), settings |-> Circular]}
\* A caller invokes addInbound, updateInbound, addClient or updateClient: the
\* validator runs, and _request is called with what it returns.
CallConfigOp(c, op, config) ==
    /\ calls < MaxConfigCalls
    /\ arg' = [op |-> op, config |-> config]
    /\ ans' = <<ValidateFor(op, config)>>
    /\ IF ValidateFor(op, config).error # ""
       THEN /\ MayCall(c)
            /\ calls' = calls + 1
            /\ prev' = [prev EXCEPT ![c] = Summary(obs[c])]
            /\ Finish(c, "invalid",
                      [obs EXCEPT ![c] = FreshObs(op, FALSE, ~obs[c].elapsed)])
            /\ UNCHANGED <<now, cookie, loginMutex, loginRetryCount, loginLog,
                           activities, cache, loggedOut, issued, refused>>
       ELSE RequestBegins(c)
    /\ UNCHANGED <<backend, storeUp, slot, put, got, monitor, mem, clients>>

\* One caller calls the operations that take a config, one after the other.
ConfigNext ==
    \/ Tick
    \/ EvictTimer
    \/ \E op \in {"addInbound", "updateInbound"}, config \in InboundConfigs :
           CallConfigOp(1, op, config)
    \/ \E op \in {"addClient", "updateClient"}, config \in ClientConfigs :
           CallConfigOp(1, op, config)
    \/ RequestChecked(1)
    \/ LoginGotSession(1)
    \/ LoginRejected(1)
    \/ \E r \in LoginResponses : LoginResponse(1, r)
    \/ \E r \in OpResponses : OpResponse(1, r)
    \/ \E r \in OpResponses : RetryResponse(1, r)

ConfigSpec == Init /\ [][ConfigNext]_vars

\* ------------------------------------------------------------ the constructor
\* A URL is a sequence of characters that may begin with a scheme.
Schemes == {"http://", "https://", "ftp://"}

\* The scheme of the text, "" when it has none.
SchemeOf(text) == IF text # <<>> /\ Head(text) \in Schemes THEN Head(text) ELSE ""

\* The host of the text: what follows the scheme, up to the first slash.
RECURSIVE UpToSlash(_)
UpToSlash(text) ==
    IF text = <<>> \/ Head(text) = "/" THEN <<>>
    ELSE <<Head(text)>> \o UpToSlash(Tail(text))

\* new URL(text) succeeds: a scheme, then a host without spaces.
Parses(text) ==
    /\ SchemeOf(text) # ""
    /\ UpToSlash(Tail(text)) # <<>>
    /\ \A i \in 1..Len(UpToSlash(Tail(text))) : UpToSlash(Tail(text))[i] = "h"

\* text.replace(/\/$/, '')
WithoutTrailingSlash(text) ==
    IF text # <<>> /\ text[Len(text)] = "/"
    THEN SubSeq(text, 1, Len(text) - 1) ELSE text

\* A validateURL that accepts every scheme.
ValidateURL_AnyScheme(url) ==
    IF Trim(url) = <<>> THEN Fails("Invalid URL: empty")
    ELSE IF ~Parses(Trim(url)) THEN Fails("Invalid URL format")
    ELSE Returns(WithoutTrailingSlash(Trim(url)))

\* InputValidator.validateURL
ValidateURL(url) ==
    IF Trim(url) = <<>> THEN Fails("Invalid URL: empty")
    ELSE IF ~Parses(Trim(url)) THEN Fails("Invalid URL format")
    ELSE IF SchemeOf(Trim(url)) \notin {"http://", "https://"}
    THEN Fails("Invalid URL format")
    ELSE Returns(WithoutTrailingSlash(Trim(url)))

\* InputValidator.validatePassword
ValidatePassword(password) ==
    IF password = <<>> THEN Fails("Invalid password: empty")
    ELSE Returns(password)

\* new ThreeXUI(baseURL, username, password): the fields of the client, or
\* the error thrown.  A missing argument is the empty string.
Construct(baseURL, username, password) ==
    IF baseURL = <<>> THEN Fails("baseURL is required")
    ELSE IF username = <<>> THEN Fails("username is required")
    ELSE IF password = <<>> THEN Fails("password is required")
    ELSE IF ValidateURL(baseURL).error # "" THEN ValidateURL(baseURL)
    ELSE IF ValidateUsername(username) = Throws THEN Fails("Invalid username")
    ELSE IF ValidatePassword(password).error # "" THEN ValidatePassword(password)
    ELSE Returns([baseURL |-> ValidateURL(baseURL).value,
                  username |-> ValidateUsername(username),
                  password |-> password,
                  cookie |-> 0, loginMutex |-> FALSE, loginRetryCount |-> 0])

\* The arguments the constructor is given.
ConstructInputs ==
    [fn : {"constructor"},
     baseURL : {lead \o scheme \o body :
                   lead \in {<<>>, <<" ">>},
                   scheme \in {<<>>} \cup {<<sch>> : sch \in Schemes},
                   body \in Strings({" ", "/", "h"}, MaxUrlLen)},
     username : {<<>>, <<" ">>, <<"u">>, <<" ", "u">>, <<"u", " ">>,
                 <<"u", ":">>, <<"u", " ", "u">>},
     password : {<<>>, <<"p">>, <<" ", "p">>}]

ConstructClient ==
    /\ arg.fn = "constructor"
    /\ ans = <<>>
    /\ ans' =
        <<Construct(arg.baseURL, arg.username, arg.password)>>
    /\ UNCHANGED <<arg, restVars>>

\* ------------------------------------------------- the credential generator
\* a & b and a | b on non-negative integers.
RECURSIVE BitAnd(_, _)
BitAnd(a, b) ==
    IF a = 0 \/ b = 0 THEN 0
    ELSE (a % 2) * (b % 2) + 2 * BitAnd(a \div 2, b \div 2)

RECURSIVE BitOr(_, _)
BitOr(a, b) ==
    IF a = 0 THEN b
    ELSE IF b = 0 THEN a
    ELSE (IF a % 2 = 1 \/ b % 2 = 1 THEN 1 ELSE 0)
         + 2 * BitOr(a \div 2, b \div 2)

\* v.toString(16) of a number below 16.
HexOf(v) ==
    <<"0", "1", "2", "3", "4", "5", "6", "7", "8", "9",
      "a", "b", "c", "d", "e", "f">>[v + 1]

\* bytes.toString('hex'): two digits for each byte.
RECURSIVE HexOfBytes(_)
HexOfBytes(bytes) ==
    IF bytes = <<>> THEN <<>>
    ELSE <<HexOf(Head(bytes) \div 16), HexOf(Head(bytes) % 16)>>
         \o HexOfBytes(Tail(bytes))

\* crypto.randomBytes(n) and Math.random(): what they give is an input, made
\* here of a seed; the bytes at the indices 6 and 8 are inputs of their own.
RandomByte(seed, i) == (seed * 89 + i * 37) % 256
RandomBytes(seed, n) == [i \in 1..n |-> RandomByte(seed, i)]

\* The version byte without its mask.
VersionByte_Unmasked(byte) == byte

\* bytes[6] = (bytes[6] & 0x0f) | 0x40
VersionByte(byte) == BitOr(BitAnd(byte, 15), 64)

\* bytes[8] = (bytes[8] & 0x3f) | 0x80
VariantByte(byte) == BitOr(BitAnd(byte, 63), 128)

\* The hex digits a..b (counted from 0, b excluded) of the text.
Slice(text, a, b) == SubSeq(text, a + 1, b)

\* CredentialGenerator.generateSecureUUID, for the 16 random bytes given.
GenerateSecureUUID(random) ==
    LET bytes == [i \in 1..16 |->
                     IF i = 7 THEN VersionByte(random[i])
                     ELSE IF i = 9 THEN VariantByte(random[i])
                     ELSE random[i]]
        hex == HexOfBytes(bytes)
    IN  Slice(hex, 0, 8) \o <<"-">> \o Slice(hex, 8, 12) \o <<"-">>
        \o Slice(hex, 12, 16) \o <<"-">> \o Slice(hex, 16, 20) \o <<"-">>
        \o Slice(hex, 20, 32)

UUIDTemplate ==
    <<"x", "x", "x", "x", "x", "x", "x", "x", "-", "x", "x", "x", "x", "-",
      "4", "x", "x", "x", "-", "y", "x", "x", "x", "-",
      "x", "x", "x", "x", "x", "x", "x", "x", "x", "x", "x", "x">>

\* CredentialGenerator.generateUUID: r is Math.random() * 16 | 0, drawn
\* anew for each x and y of the template.
GenerateUUID(r) ==
    [i \in 1..Len(UUIDTemplate) |->
        IF UUIDTemplate[i] = "x" THEN HexOf(r[i])
        ELSE IF UUIDTemplate[i] = "y" THEN HexOf(BitOr(BitAnd(r[i], 3), 8))
        ELSE UUIDTemplate[i]]

\* The random bytes of a UUID: any byte at the indices 6 and 8.
UuidInputs ==
    [fn : {"generateUUID"}, seed : 0..MaxSeed, byte6 : 0..255,
     byte8 : {0, 63, 64, 127, 128, 191, 192, 255}]

\* The random bytes described by arg.
UuidBytes ==
    [i \in 1..16 |-> IF i = 7 THEN arg.byte6
                     ELSE IF i = 9 THEN arg.byte8
                     ELSE RandomByte(arg.seed, i)]

\* The random numbers below 16 described by arg.
UuidNibbles ==
    [i \in 1..Len(UUIDTemplate) |->
        IF UUIDTemplate[i] = "y" THEN arg.byte6 % 16
        ELSE IF i = 16 THEN arg.byte6 \div 16
        ELSE RandomByte(arg.seed, i) % 16]

SecureUuidGenerate ==
    /\ arg.fn = "generateUUID"
    /\ ans = <<>>
    /\ ans' =
        <<[by |-> "generateSecureUUID", uuid |-> GenerateSecureUUID(UuidBytes)]>>
    /\ UNCHANGED <<arg, restVars>>

FastUuidGenerate ==
    /\ arg.fn = "generateUUID"
    /\ ans = <<>>
    /\ ans' =
        <<[by |-> "generateUUID", uuid |-> GenerateUUID(UuidNibbles)]>>
    /\ UNCHANGED <<arg, restVars>>

\* The characters of generatePassword with its default options: letters and
\* digits without 0, O, 1, l and I.
PasswordChars ==
    <<"A", "B", "C", "D", "E", "F", "G", "H", "J", "K", "L", "M", "N", "P",
      "Q", "R", "S", "T", "U", "V", "W", "X", "Y", "Z",
      "a", "b", "c", "d", "e", "f", "g", "h", "i", "j", "k", "m", "n", "o",
      "p", "q", "r", "s", "t", "u", "v", "w", "x", "y", "z",
      "2", "3", "4", "5", "6", "7", "8", "9">>

\* CredentialGenerator.generatePassword(length)
GeneratePassword(length, seed) ==
    [i \in 1..length |->
        PasswordChars[(RandomByte(seed, i) % Len(PasswordChars)) + 1]]

\* A password length that ignores the option.
PasswordLength_Default(options, default) == default

\* options.passwordLength || default (0 stands for an option not given)
PasswordLength(options, default) ==
    IF options.passwordLength # 0 THEN options.passwordLength ELSE default

PSKLengths == [m \in {"2022-blake3-aes-128-gcm", "2022-blake3-aes-256-gcm",
                      "2022-blake3-chacha20-poly1305"} |->
                  IF m = "2022-blake3-aes-128-gcm" THEN 16 ELSE 32]

\* protocol.toLowerCase(), for the tags of the model.
ToLowerCase(tag) ==
    CASE tag = "VLESS" -> "vless"
      [] tag = "Trojan" -> "trojan"
      [] tag = "HTTP" -> "http"
      [] OTHER -> tag

\* options.email || generateClientIdentifier()
EmailOf(options) == IF options.email # "" THEN options.email ELSE "client_id"

\* CredentialGenerator.generateForProtocol: the record returned, or the error
\* thrown.  An option that is not given is 0 or "".
GenerateForProtocol(protocol, options, seed) ==
    LET tag == ToLowerCase(protocol)
        method22 == IF options.method # "" THEN options.method
                    ELSE "2022-blake3-aes-256-gcm"
    IN  CASE tag = "vless" ->
               Returns([id |-> GenerateSecureUUID(RandomBytes(seed, 16)),
                        email |-> EmailOf(options),
                        flow |-> "xtls-rprx-vision", encryption |-> "none"])
          [] tag = "vmess" ->
               Returns([id |-> GenerateSecureUUID(RandomBytes(seed, 16)),
                        email |-> EmailOf(options), level |-> 0, alterId |-> 0])
          [] tag = "trojan" ->
               Returns([password |-> GeneratePassword(PasswordLength(options, 16), seed),
                        email |-> EmailOf(options), level |-> 0])
          [] tag = "shadowsocks" ->
               Returns([method |-> IF options.method # "" THEN options.method
                                   ELSE "chacha20-ietf-poly1305",
                        password |-> GeneratePassword(PasswordLength(options, 16), seed),
                        email |-> EmailOf(options)])
          [] tag = "shadowsocks2022" ->
               IF method22 \notin DOMAIN PSKLengths
               THEN Fails("Unsupported Shadowsocks2022 method")
               ELSE Returns([method |-> method22,
                             password |-> <<"base64", PSKLengths[method22]>>,
                             email |-> EmailOf(options)])
          [] tag = "wireguard" ->
               Returns([privateKey |-> <<"base64", 32>>,
                        publicKey |-> <<"base64", 32>>,
                        allowedIPs |-> <<"10.0.0.2/32">>, keepAlive |-> 25])
          [] tag \in {"socks5", "http"} ->
               Returns([user |-> "user_id",
                        pass |-> GeneratePassword(PasswordLength(options, 12), seed),
                        email |-> EmailOf(options)])
          [] tag = "dokodemo-door" -> Returns([email |-> EmailOf(options)])
          [] OTHER -> Fails("Unsupported protocol")

\* The tags of the generator, and tags that are not among them.
ProtocolInputs ==
    [fn : {"generateForProtocol"},
     protocol : {"vless", "vmess", "trojan", "shadowsocks", "shadowsocks2022",
                 "wireguard", "socks5", "http", "dokodemo-door",
                 "VLESS", "Trojan", "HTTP", "ssh", "", "vless2"},
     options : [passwordLength : (0..MaxPasswordLen) \cup {20},
                method : {"", "2022-blake3-aes-128-gcm", "none"},
                email : {"", "e"}],
     seed : 0..MaxSeed]

ProtocolGenerate ==
    /\ arg.fn = "generateForProtocol"
    /\ ans = <<>>
    /\ ans' =
        <<GenerateForProtocol(arg.protocol, arg.options, arg.seed)>>
    /\ UNCHANGED <<arg, restVars>>

\* The character classes of generatePassword.
Uppercase ==
    <<"A", "B", "C", "D", "E", "F", "G", "H", "I", "J", "K", "L",
      "M", "N", "O", "P", "Q", "R", "S", "T", "U", "V", "W", "X",
      "Y", "Z">>
Lowercase ==
    <<"a", "b", "c", "d", "e", "f", "g", "h", "i", "j", "k", "l",
      "m", "n", "o", "p", "q", "r", "s", "t", "u", "v", "w", "x",
      "y", "z">>
Numbers == <<"0", "1", "2", "3", "4", "5", "6", "7", "8", "9">>
Symbols ==
    <<"!", "@", "#", "$", "%", "^", "&", "*", "(", ")", "_", "+",
      "-", "=", "[", "]", "{", "}", "|", ";", ":", ",", ".", "<",
      ">", "?">>

\* A replace that removes nothing.
WithoutSimilar_Kept(chars) == chars

\* chars.replace(/[0O1lI]/g, '')
WithoutSimilar(chars) ==
    SelectSeq(chars, LAMBDA ch : ch \notin {"0", "O", "1", "l", "I"})

\* The characters generatePassword draws from, for its options.
CharsOf(options) ==
    LET chars == (IF options.includeUppercase THEN Uppercase ELSE <<>>)
                 \o (IF options.includeLowercase THEN Lowercase ELSE <<>>)
                 \o (IF options.includeNumbers THEN Numbers ELSE <<>>)
                 \o (IF options.includeSymbols THEN Symbols ELSE <<>>)
    IN IF options.excludeSimilar THEN WithoutSimilar(chars) ELSE chars

\* CredentialGenerator.generatePassword(length, options); bytes is what
\* crypto.randomBytes(length) returns.
GeneratePasswordWith(length, options, bytes) ==
    IF Len(CharsOf(options)) = 0
    THEN Fails("No character sets selected for password generation")
    ELSE Returns([i \in 1..length |->
                     CharsOf(options)[(bytes[i] % Len(CharsOf(options))) + 1]])

\* The lengths, the options and the random bytes of generatePassword: the
\* first byte selects any character of the largest set.
PasswordInputs ==
    [fn : {"generatePassword"},
     length : (0..MaxPasswordLen) \cup {16},
     options : [includeUppercase : BOOLEAN, includeLowercase : BOOLEAN,
                includeNumbers : BOOLEAN, includeSymbols : BOOLEAN,
                excludeSimilar : BOOLEAN],
     first : 0..(Len(Uppercase \o Lowercase \o Numbers \o Symbols) - 1),
     seed : 0..MaxSeed]

PasswordGenerate ==
    /\ arg.fn = "generatePassword"
    /\ ans = <<>>
    /\ ans' =
        <<GeneratePasswordWith(
              arg.length, arg.options,
              [i \in 1..arg.length |->
                  IF i = 1 THEN arg.first ELSE RandomByte(arg.seed, i)])>>
    /\ UNCHANGED <<arg, restVars>>

\* Each function is applied to each of the arguments drawn for it.
FnInit ==
    /\ InitClient
    /\ backend = "memory"
    /\ storeUp = TRUE
    /\ ans = <<>>
    /\ \/ arg \in KeyInputs
       \/ arg \in ValidInputs
       \/ arg \in InboundInputs
       \/ arg \in ConstructInputs
       \/ arg \in UuidInputs
       \/ arg \in ProtocolInputs
       \/ arg \in PasswordInputs

FnNext ==
    \/ KeyGenerate
    \/ ValidAsk
    \/ InboundValidate
    \/ ConstructClient
    \/ SecureUuidGenerate
    \/ FastUuidGenerate
    \/ ProtocolGenerate
    \/ PasswordGenerate

FnSpec == FnInit /\ [][FnNext]_vars

\* ---------------------------------------------- the memory store, used directly
\* What was last done with the store.
Did(op, key) ==
    [op |-> op, key |-> key, fired |-> 0, removed |-> 0, answer |-> <<>>]

memRest == <<backend, storeUp, slot, put, got, arg, ans, monitor, clientVars>>

\* store.set(key, value, ttl)
MemSet(key, ttl) ==
    /\ mem.sets < MaxSets
    /\ mem' = [MemorySet(mem, key, mem.sets + 1, ttl, now) EXCEPT
                   !.last = Did("set", key)]
    /\ UNCHANGED <<now, clients, memRest>>

\* store.get(key)
MemGet(key) ==
    /\ mem' = [MemoryAfterGet(mem, key, now) EXCEPT
                   !.last = [Did("get", key) EXCEPT
                                !.answer = MemoryGet(mem, key, now)]]
    /\ UNCHANGED <<now, clients, memRest>>

\* store.delete(key)
MemDelete(key) ==
    /\ mem' = [MemoryDelete(mem, key) EXCEPT !.last = Did("delete", key)]
    /\ UNCHANGED <<now, clients, memRest>>

\* store.clear()
MemClear ==
    /\ mem' = [MemoryClear(mem) EXCEPT !.last = Did("clear", "none")]
    /\ UNCHANGED <<now, clients, memRest>>

\* A timeout that is due runs its callback, at its time or later.
MemTimer(timer) ==
    /\ timer \in mem.pending
    /\ timer.due <= now
    /\ mem' = [MemoryTimeout(mem, timer) EXCEPT
                   !.last = [Did("timer", timer.key) EXCEPT
                                !.fired = timer.id,
                                !.removed = IF timer.key \in DOMAIN mem.cache
                                            THEN mem.cache[timer.key].gen
                                            ELSE 0]]
    /\ UNCHANGED <<now, clients, memRest>>

\* Some seconds pass.
MemTick(seconds, until) ==
    /\ now + seconds <= until
    /\ now' = now + seconds
    /\ UNCHANGED <<mem, clients, memRest>>

MemNext ==
    \/ \E key \in {"k1", "k2"}, ttl \in 0..MaxTTL : MemSet(key, ttl)
    \/ \E key \in {"k1", "k2"} : MemGet(key)
    \/ \E key \in {"k1", "k2"} : MemDelete(key)
    \/ MemClear
    \/ \E timer \in mem.pending : MemTimer(timer)
    \/ MemTick(1, StartTime + MaxStoreTicks)

MemSpec == Init /\ [][MemNext]_vars

\* ------------------------------------------- clients that share a store
\* A record in which the fields of sessionData win.
StoredRecord_DataLast(baseURL, username, sessionData, t) ==
    [f \in DOMAIN sessionData \cup {"createdAt", "baseURL", "username"} |->
        IF f \in DOMAIN sessionData THEN sessionData[f]
        ELSE IF f = "createdAt" THEN t
        ELSE IF f = "baseURL" THEN baseURL
        ELSE username]

\* { ...sessionData, createdAt: Date.now(), baseURL, username }
StoredRecord(baseURL, username, sessionData, t) ==
    [f \in DOMAIN sessionData \cup {"createdAt", "baseURL", "username"} |->
        IF f = "createdAt" THEN t
        ELSE IF f = "baseURL" THEN baseURL
        ELSE IF f = "username" THEN username
        ELSE sessionData[f]]

\* SessionManager.storeSession, on the memory store
SharedStoreSession(m, baseURL, username, sessionData, t) ==
    MemorySet(m, GenerateSessionKey(baseURL, username),
              StoredRecord(baseURL, username, sessionData, t), sessionTTL, t)

\* SessionManager.getSession: <<>> is null.
GetSession(m, baseURL, username, t) ==
    MemoryGet(m, GenerateSessionKey(baseURL, username), t)

\* The store after getSession.
AfterGetSession(m, baseURL, username, t) ==
    MemoryAfterGet(m, GenerateSessionKey(baseURL, username), t)

\* A deleteSession that clears the store.
DeleteSession_All(m, baseURL, username) == MemoryClear(m)

\* SessionManager.deleteSession
DeleteSession(m, baseURL, username) ==
    MemoryDelete(m, GenerateSessionKey(baseURL, username))

\* SessionManager.clearAllSessions
ClearAllSessions(m) == MemoryClear(m)

\* A restore that asks for the password the panel knows.
RestoresFromCache_OwnPassword(config, session) ==
    /\ session # <<>>
    /\ "cookie" \in DOMAIN session[1]
    /\ session[1].cookie # 0
    /\ config.password = ClientOf[1].password

\* login: existingSession && existingSession.cookie
RestoresFromCache(config, session) ==
    /\ session # <<>>
    /\ "cookie" \in DOMAIN session[1]
    /\ session[1].cookie # 0

\* The (baseURL, username) pair of a client.
PairOf(i) == [baseURL |-> ClientOf[i].baseURL, username |-> ClientOf[i].username]

\* The objects handed to storeSession as sessionData: one as login writes
\* it, one without a cookie, one that names another pair and another time.
SessionDatas ==
    {[cookie |-> 7, loginTime |-> 1],
     [loginTime |-> 1],
     [cookie |-> 7, createdAt |-> 1, baseURL |-> <<"x">>, username |-> <<"x">>]}

\* The calls of login made so far by the clients 1..n.
RECURSIVE LoginCalls(_)
LoginCalls(n) == IF n = 0 THEN 0 ELSE clients[n].calls + LoginCalls(n - 1)

sharedRest == <<backend, storeUp, slot, put, got, arg, ans, monitor, clientVars>>

\* sessionManager.storeSession(baseURL, username, sessionData)
SessStore(pair, sessionData) ==
    /\ mem.sets < MaxSets
    /\ mem' = [SharedStoreSession(mem, pair.baseURL, pair.username,
                                   sessionData, now)
                EXCEPT !.last = Did("storeSession", pair)]
    /\ UNCHANGED <<now, clients, sharedRest>>

\* sessionManager.getSession(baseURL, username)
SessGet(pair) ==
    /\ mem' = [AfterGetSession(mem, pair.baseURL, pair.username, now) EXCEPT
                   !.last = [Did("getSession", pair) EXCEPT
                                !.answer = GetSession(mem, pair.baseURL,
                                                      pair.username, now)]]
    /\ UNCHANGED <<now, clients, sharedRest>>

\* sessionManager.deleteSession(baseURL, username)
SessDelete(pair) ==
    /\ mem' = [DeleteSession(mem, pair.baseURL, pair.username) EXCEPT
                   !.last = Did("deleteSession", pair)]
    /\ UNCHANGED <<now, clients, sharedRest>>

\* client.login(forceRefresh), up to its answer from the cache or to the
\* POST of /login.
ClientLogin(i, forceRefresh) ==
    LET c == clients[i]
        session == GetSession(mem, ClientOf[i].baseURL, ClientOf[i].username, now)
        counted == [c EXCEPT !.loginLog = LedgerAfterCheck(c.loginLog, now),
                             !.calls = @ + 1, !.forced = forceRefresh]
    IN  /\ c.pc = "idle"
        /\ LoginCalls(Len(ClientOf)) < MaxClientLogins
        /\ IF ~RateAllowed(c.loginLog, now)
           THEN /\ clients' =
                       [clients EXCEPT ![i] =
                           [counted EXCEPT
                               !.activities = LogSuspiciousActivity(
                                                  @, "rate_limit_exceeded"),
                               !.last = [result |-> "limited",
                                         fromCache |-> FALSE]]]
                /\ mem' = mem
           ELSE IF forceRefresh
           THEN /\ clients' =
                       [clients EXCEPT ![i] =
                           [counted EXCEPT !.loginRetryCount = @ + 1,
                                           !.pc = "net"]]
                /\ mem' = mem
           ELSE IF RestoresFromCache(ClientOf[i], session)
           THEN /\ clients' =
                       [clients EXCEPT ![i] =
                           [counted EXCEPT
                               !.cookie = session[1].cookie,
                               !.loginRetryCount = 0,
                               !.last = [result |-> "ok", fromCache |-> TRUE]]]
                /\ mem' = [AfterGetSession(mem, ClientOf[i].baseURL,
                                           ClientOf[i].username, now)
                           EXCEPT !.last = Did("login", PairOf(i))]
           ELSE /\ clients' =
                       [clients EXCEPT ![i] =
                           [counted EXCEPT !.loginRetryCount = @ + 1,
                                           !.pc = "net"]]
                /\ mem' = [AfterGetSession(mem, ClientOf[i].baseURL,
                                           ClientOf[i].username, now)
                           EXCEPT !.last = Did("login", PairOf(i))]
        /\ UNCHANGED <<now, sharedRest>>

\* The panel accepts the login of a client that sends the password it
\* knows: the token is kept and stored.
ClientLoginAccepted(i) ==
    /\ clients[i].pc = "net"
    /\ ClientOf[i].password = ClientOf[1].password
    /\ clients' =
           [clients EXCEPT ![i] =
               [@ EXCEPT !.cookie = 10 * i + clients[i].calls,
                         !.loginRetryCount = 0,
                         !.pc = "idle",
                         !.last = [result |-> "ok", fromCache |-> FALSE]]]
    /\ mem' = [SharedStoreSession(
                   mem, ClientOf[i].baseURL, ClientOf[i].username,
                   [cookie |-> 10 * i + clients[i].calls, loginTime |-> now],
                   now)
               EXCEPT !.last = Did("storeSession", PairOf(i))]
    /\ UNCHANGED <<now, sharedRest>>

\* The login fails: the panel rejects it, or does not answer.
ClientLoginFailed(i) ==
    /\ clients[i].pc = "net"
    /\ clients' =
           [clients EXCEPT ![i] =
               [@ EXCEPT
                   !.activities =
                       IF clients[i].loginRetryCount >= maxLoginRetries
                       THEN LogSuspiciousActivity(@, "multiple_failed_logins")
                       ELSE @,
                   !.pc = "idle",
                   !.last = [result |-> "failed", fromCache |-> FALSE]]]
    /\ UNCHANGED <<now, mem, sharedRest>>

\* client.logout()
ClientLogout(i) ==
    /\ clients' = [clients EXCEPT ![i].cookie = 0]
    /\ mem' = [DeleteSession(mem, ClientOf[i].baseURL, ClientOf[i].username)
               EXCEPT !.last = Did("logout", PairOf(i))]
    /\ UNCHANGED <<now, sharedRest>>

\* client.clearAllSessions()
ClientClearAllSessions(i) ==
    /\ mem' = [ClearAllSessions(mem) EXCEPT
                   !.last = Did("clearAllSessions", PairOf(i))]
    /\ UNCHANGED <<now, clients, sharedRest>>

\* The session manager is used directly.
ManagerNext ==
    \/ \E i \in DOMAIN ClientOf, sessionData \in SessionDatas :
           SessStore(PairOf(i), sessionData)
    \/ \E i \in DOMAIN ClientOf : SessGet(PairOf(i))
    \/ \E i \in DOMAIN ClientOf : SessDelete(PairOf(i))
    \/ \E i \in DOMAIN ClientOf : ClientClearAllSessions(i)
    \/ \E timer \in mem.pending : MemTimer(timer)
    \/ MemTick(TickSeconds, MaxTime)

ManagerSpec == Init /\ [][ManagerNext]_vars

\* The time by which a session stored at the start has expired.
ExpiryTime == StartTime + 2 * TickSeconds

\* The clients log in and out, and the session manager they share is also
\* told directly to delete a session.
SharedNext ==
    \/ \E i \in DOMAIN ClientOf : SessDelete(PairOf(i))
    \/ \E i \in DOMAIN ClientOf, forceRefresh \in BOOLEAN :
           ClientLogin(i, forceRefresh)
    \/ \E i \in DOMAIN ClientOf : ClientLoginAccepted(i)
    \/ \E i \in DOMAIN ClientOf : ClientLoginFailed(i)
    \/ \E i \in DOMAIN ClientOf : ClientLogout(i)
    \/ \E i \in DOMAIN ClientOf : ClientClearAllSessions(i)
    \/ \E timer \in mem.pending : MemTimer(timer)
    \/ MemTick(TickSeconds, ExpiryTime)

SharedSpec == Init /\ [][SharedNext]_vars

\* --------------------------------------------- a store that is already warm
\* Before the client makes its first call, another client of the same
\* (baseURL, username), or this client before its process restarted, logs
\* in and stores its session in the store that this client is built with.
OtherClientStores ==
    /\ calls = 0
    /\ issued = 0
    /\ issued' = 1
    /\ cache' = StoreSession(1, now)
    /\ UNCHANGED <<now, cookie, loginMutex, loginRetryCount, loginLog,
                   activities, loggedOut, refused, calls, pc, frame, obs, prev>>
    /\ UNCHANGED storeVars

WarmNext == SeqNext \/ OtherClientStores

WarmSpec == StoreInit /\ [][WarmNext]_vars


\* ------------------------------------------- callers that never stop calling
\* The mutex protocol of _request and _ensureAuthenticated on its own, with no
\* bound on the calls that are made: whether the cached session is valid, how
\* a login ends and what the panel answers are drawn freely, and the ledger,
\* the counters and the cache that they would come from are left out.
busyRest == <<now, cookie, loginRetryCount, loginLog, activities, loggedOut,
              cache, issued, refused, calls, prev>>

\* _ensureAuthenticated(forceRefresh): wait in the polling loop while the
\* mutex is held, or else take it and start login().
BusyEnsure(c, phase, O) ==
    /\ frame' = [frame EXCEPT ![c] = [NoFrame EXCEPT !.phase = phase]]
    /\ IF loginMutex
       THEN /\ pc' = [pc EXCEPT ![c] = "r_poll"]
            /\ obs' = O
            /\ UNCHANGED loginMutex
       ELSE /\ pc' = [pc EXCEPT ![c] = "l_net"]
            /\ obs' = [O EXCEPT ![c] = [@ EXCEPT !.logins = @ + 1]]
            /\ loginMutex' = AcquireMutex(phase, loginMutex)

\* _request up to its first await; valid is what hasValidSession will answer.
BusyCall(c, valid) ==
    /\ pc[c] = "idle"
    /\ LET O == [obs EXCEPT ![c] = FreshObs("request", FALSE, FALSE)]
       IN  IF loginMutex
           THEN Dispatch(c, "r_wait1", cookie, O)
           ELSE /\ pc' = [pc EXCEPT ![c] = "r_checked"]
                /\ frame' = [frame EXCEPT ![c] = [NoFrame EXCEPT !.valid = valid]]
                /\ obs' = O
    /\ UNCHANGED loginMutex
    /\ UNCHANGED busyRest
    /\ UNCHANGED storeVars

\* _request resumes with the answer of hasValidSession.
BusyChecked(c) ==
    /\ pc[c] = "r_checked"
    /\ IF ~frame[c].valid \/ (~loginMutex /\ cookie = 0)
       THEN BusyEnsure(c, "pre", obs)
       ELSE /\ Dispatch(c, "r_wait1", cookie, obs)
            /\ UNCHANGED loginMutex
    /\ UNCHANGED busyRest
    /\ UNCHANGED storeVars

\* login() returns or throws and the finally block releases the mutex.
BusyLoginEnds(c, outcome) ==
    /\ pc[c] = "l_net"
    /\ LoginReturns(c, frame[c].phase, outcome, cookie, obs)
    /\ UNCHANGED busyRest
    /\ UNCHANGED storeVars

\* The panel answers the first call of the operation.
BusyOpResponse(c, r) ==
    /\ pc[c] = "r_wait1"
    /\ IF r = "401"
       THEN BusyEnsure(c, "retry", [obs EXCEPT ![c] = [@ EXCEPT !.got401 = TRUE]])
       ELSE /\ Finish(c, IF r = "ok" THEN "ok" ELSE "httpErr", obs)
            /\ UNCHANGED loginMutex
    /\ UNCHANGED busyRest
    /\ UNCHANGED storeVars

\* The panel answers the retried call of the operation.
BusyRetryResponse(c, r) ==
    /\ pc[c] = "r_wait2"
    /\ Finish(c, CASE r = "ok" -> "ok" [] r = "401" -> "http401"
                   [] OTHER -> "httpErr", obs)
    /\ UNCHANGED loginMutex
    /\ UNCHANGED busyRest
    /\ UNCHANGED storeVars

LoginOutcomes == {"net", "failed", "limited"}

BusyNext ==
    \/ \E c \in Callers, valid \in BOOLEAN : BusyCall(c, valid)
    \/ \E c \in Callers : BusyChecked(c)
    \/ \E c \in Callers, outcome \in LoginOutcomes : BusyLoginEnds(c, outcome)
    \/ \E c \in Callers : PollExit(c)
    \/ \E c \in Callers, r \in OpResponses : BusyOpResponse(c, r)
    \/ \E c \in Callers, r \in OpResponses : BusyRetryResponse(c, r)

\* Every started continuation runs: the store answers, every login attempt
\* ends, the panel answers every call, and the timer of the polling loop
\* fires, so a caller in the loop leaves it if the mutex stays free.  A caller
\* is free to make a next call or not.
BusyFair ==
    \A c \in Callers :
        /\ WF_vars(BusyChecked(c))
        /\ WF_vars(\E outcome \in LoginOutcomes : BusyLoginEnds(c, outcome))
        /\ WF_vars(PollExit(c))
        /\ WF_vars(\E r \in OpResponses : BusyOpResponse(c, r))
        /\ WF_vars(\E r \in OpResponses : BusyRetryResponse(c, r))

BusySpec == Init /\ [][BusyNext]_vars /\ BusyFair

\* ------------------------------------------------------------------ claims
Done(c) == pc[c] = "idle" /\ obs[c].result # "none"

InLogin(c) == pc[c] \in {"l_got", "l_net"}

\* C1: a request re-issues its operation after a 401 only once a fresh
\* network login has succeeded since that 401 (its own forced login, or the
\* login it waited for); it re-issues it exactly once and ends with the result
\* of that retry.  When its own login is rejected or fails, it ends with that
\* error after the one original call.
C1_ForcesNetworkLogin ==
    \A c \in Callers : obs[c].got401 =>
        /\ obs[c].attempts <= 2
        /\ pc[c] = "r_wait2" =>
               \/ obs[c].reauth = "net"
               \/ obs[c].reauth = "waited" /\ obs[c].awaited = "net"
        /\ (Done(c) /\ obs[c].attempts = 2) =>
               obs[c].result \in {"ok", "http401", "httpErr"}
        /\ (Done(c) /\ obs[c].attempts = 1) =>
               /\ obs[c].reauth \in {"limited", "failed"}
               /\ obs[c].result = ResultOf(obs[c].reauth)

\* C2: a request that ends on the 401s of its operation has made exactly two
\* calls of it and ends with the "max retries exceeded" error.
C2_TwoAttemptsThenMaxRetries ==
    \A c \in Callers :
        (Done(c) /\ obs[c].kind = "request"
                 /\ obs[c].result \in {"http401", "maxRetries"}) =>
            obs[c].attempts = 2 /\ obs[c].result = "maxRetries"

\* C3: while the panel has refused nothing, no time has passed and every
\* caller has made at most one call, a request, at most one network login is
\* made, every operation call carries the one token, and every request that
\* has ended has succeeded.
C3_OneLoginForBurst ==
    (/\ ~refused
     /\ now = StartTime
     /\ \A c \in Callers : obs[c].kind \in {"none", "request"}
                           /\ prev[c].kind = "none") =>
        /\ NetLoginCalls <= 1
        /\ \A c \in Callers :
              /\ pc[c] \in {"r_wait1", "r_wait2"} => obs[c].sentWith = 1
              /\ Done(c) => obs[c].result = "ok"

\* C4: at most one login attempt is in flight.
C4_OneLoginInFlight ==
    Cardinality({c \in Callers : InLogin(c)}) <= 1

\* C5: a request invoked while a login holds the mutex does not send its
\* operation call before that login has resolved.
C5_BlocksWhileLoginInFlight ==
    [][\A c \in Callers :
          (pc[c] = "idle" /\ pc'[c] = "r_wait1") => ~loginMutex]_vars

\* C6: a caller that waited on the mutex for a login that failed does not go
\* on to send its operation call.
C6_WaitersShareFailure ==
    \A c \in Callers :
        obs[c].awaited \in {"failed", "limited"} => pc[c] = "r_poll"

\* C7: whenever no login started by _ensureAuthenticated is executing, the
\* login mutex is free.
C7_MutexReleased ==
    (\A c \in Callers :
        ~(pc[c] \in {"l_got", "l_net", "l_rej"}
          /\ frame[c].phase \in EnsurePhases)) => ~loginMutex

\* A request has ended on the failure of its login, and the mutex is free.
C7_Witness ==
    \E c \in Callers :
        /\ Done(c) /\ obs[c].kind = "request"
        /\ obs[c].result \in {"loginFailed", "rateLimited"}
        /\ \A d \in Callers : pc[d] \notin {"l_got", "l_net", "l_rej"}
        /\ ~loginMutex

\* C8: login(false) is served from the cache only when the cached session
\* has not crossed the refresh threshold.
C8_CacheOnlyWhenFresh ==
    \A c \in Callers :
        (Done(c) /\ obs[c].kind = "login" /\ ~obs[c].force
                 /\ obs[c].result = "fromCache") => ~obs[c].cacheStale

\* C9: a request that found the stored session past its refresh threshold
\* and has succeeded, no time having passed since, leaves a session for
\* which hasValidSession is true.
C9_RenewedBeforeExpiry ==
    \A c \in Callers :
        (Done(c) /\ obs[c].kind = "request" /\ obs[c].refreshDue
                 /\ obs[c].result = "ok" /\ ~obs[c].elapsed) =>
            HasValidSession(cache, now)

\* Two login calls of one caller, the second begun with no time passed since
\* the first.
LoginTwice(c) ==
    /\ Done(c) /\ obs[c].kind = "login" /\ prev[c].kind = "login"
    /\ obs[c].inSuccession

AttemptsInWindow ==
    Cardinality({i \in 1..Len(loginLog) : now - loginLog[i] <= loginWindow})

\* C11: a login attempt passes the rate limiter when fewer than
\* maxLoginAttemptsPerHour attempts were made within the last hour, and is
\* rejected otherwise.  The rejection is made before any network call, ends
\* the attempt with the rate-limit error, appends a rate_limit_exceeded
\* activity and leaves the failed-login counter as it was.
C11_RateLimit ==
    [][loginLog' # loginLog =>
         IF AttemptsInWindow < maxLoginAttemptsPerHour
         THEN /\ loginRetryCount' = loginRetryCount + 1
              /\ activities' = activities
              /\ \A c \in Callers : pc'[c] # pc[c] => pc'[c] \in {"l_got", "l_net"}
         ELSE /\ activities' = Append(activities, "rate_limit_exceeded")
              /\ loginRetryCount' = loginRetryCount
              /\ issued' = issued
              /\ \A c \in Callers : pc'[c] = "l_net" => pc[c] = "l_net"
              /\ \E c \in Callers :
                     \/ pc'[c] = "l_rej" /\ pc[c] # "l_rej"
                     \/ /\ pc[c] = "idle" /\ pc'[c] = "idle"
                        /\ obs'[c].result = "rateLimited"
                        /\ obs'[c].netCalls = 0]_vars

\* A login call was rejected by the limiter with the limit of attempts on
\* the ledger before it: it made no network call and the activity is logged.
C11_Witness ==
    \E c \in Callers :
        /\ Done(c) /\ obs[c].kind = "login" /\ obs[c].result = "rateLimited"
        /\ obs[c].netCalls = 0
        /\ Len(loginLog) = maxLoginAttemptsPerHour + 1
        /\ Len(activities) > 0
        /\ activities[Len(activities)] = "rate_limit_exceeded"

\* C12: once the failed-login counter has reached maxLoginRetries, no further
\* login attempt goes to the network.
C12_FailFastAtMax ==
    [][\A c \in Callers :
          (pc'[c] = "l_net" /\ pc[c] # "l_net") =>
              loginRetryCount' <= maxLoginRetries]_vars

C14_PersistedBeforeToken ==
    \A c \in Callers :
        pc[c] = "l_store" => cookie # frame[c].pending.cookie

\* C15: while the backend of the store is unreachable and the panel has
\* refused nothing, every request that has ended has logged in over the
\* network and has succeeded.
C15_OutageIsCacheMiss ==
    (~storeUp /\ ~refused) =>
        \A c \in Callers :
            (Done(c) /\ obs[c].kind = "request") =>
                obs[c].result = "ok" /\ obs[c].netCalls >= 1

\* C18: getSessionStats(), isSessionValid() and clearAllSessions() do not
\* throw, whatever the store and whether or not its backend is reachable.
C18_IntrospectionNeverThrows ==
    \A c \in Callers :
        (Done(c) /\ obs[c].kind \in {"getSessionStats", "isSessionValid",
                                     "clearAllSessions"}) =>
            obs[c].result # "threw"

\* C16: from the moment logout() has resolved until a login starts, the
\* client holds no token and the store returns no session for it.
C16_LoggedOutStaysCleared ==
    loggedOut => cookie = 0 /\ BackendGet(cache, now).cookie = 0

\* C17: a request that ended with a non-401 HTTP error of its operation has
\* made one call of it and no login after that call; or, when that error
\* answered the retry that followed a 401, two calls.
C17_OtherErrorsPropagate ==
    \A c \in Callers :
        (Done(c) /\ obs[c].kind = "request" /\ obs[c].result = "httpErr") =>
            IF obs[c].got401
            THEN obs[c].attempts = 2 /\ obs[c].reauth \in {"waited", "net"}
            ELSE obs[c].attempts = 1 /\ obs[c].reauth = "none"

\* The first call of a request was answered with a non-401 error.
C17_Witness ==
    \E c \in Callers :
        /\ Done(c) /\ obs[c].kind = "request" /\ obs[c].result = "httpErr"
        /\ ~obs[c].got401 /\ obs[c].attempts = 1 /\ cookie # 0

\* The last get(key) was made after a set(key, value, ttl).
GotAfterPut == got.value # "unasked" /\ put.value # "none"

\* C19: in the memory store, get returns the value set with ttl > 0 at every
\* time before ttl seconds have passed and null at every time after them,
\* and returns null for a key that was never set.
C19_MemoryExpiry ==
    (backend = "memory" /\ got.value # "unasked") =>
        /\ put.value = "none" => got.value = "null"
        /\ (put.value # "none" /\ put.ttl > 0) =>
               /\ got.at - put.at < put.ttl => got.value = put.value
               /\ got.at - put.at > put.ttl => got.value = "null"

\* A get of the memory store found the entry expired, before its eviction
\* timer had fired, and answered null.
C19_Witness ==
    /\ backend = "memory" /\ GotAfterPut /\ put.ttl > 0
    /\ got.at - put.at > put.ttl
    /\ got.lazy /\ got.value = "null"

\* C20 (as stated): with each of the four stores, get(key) made immediately
\* after set(key, value, ttl) returns the value that was set.
C20_RoundTrip ==
    (GotAfterPut /\ got.at = put.at) => got.value = put.value

\* C20 (amended): the same, for the values that JSON represents (objects of
\* strings and finite numbers) with the Redis and database stores, and for
\* every value with the memory store and the custom handler.
C20_RoundTripOfJsonValues ==
    (/\ GotAfterPut /\ got.at = put.at
     /\ (backend \in {"redis", "database"} => put.value = "plain")) =>
        got.value = put.value

\* A value was set in the Redis store and read back at once.
C20_Witness ==
    /\ backend = "redis" /\ GotAfterPut /\ got.at = put.at
    /\ put.ttl > 0 /\ put.value = "plain" /\ got.value = "plain"

\* The user name of a pair is one that validateUsername returns.
ValidPair(pair) == ValidateUsername(pair.username) = pair.username

\* C21: generateSessionKey gives the same key for the same pair, and
\* different keys for two different pairs whose user names are valid.
C21_KeyDeterministicAndCollisionFree ==
    Applied("generateSessionKey") =>
        /\ Answer.again = Answer.first
        /\ (ValidPair(arg.first) /\ ValidPair(arg.second)
              /\ arg.first # arg.second) => Answer.first # Answer.second

\* Keys were generated for two different valid pairs, one of them with a
\* port in its URL.
C21_Witness ==
    /\ Applied("generateSessionKey")
    /\ ValidPair(arg.first) /\ ValidPair(arg.second)
    /\ arg.first.baseURL # arg.second.baseURL
    /\ arg.first.username = arg.second.username
    /\ Answer.first # Answer.second

\* C22: hasValidSession answers true exactly when the store holds an
\* unexpired record for the pair and either autoRefresh is off or the record
\* has a createdAt and its age is below sessionTTL x refreshThreshold.
C22_ValidIffFresh ==
    Applied("hasValidSession") =>
        (Answer <=>
            /\ arg.held
            /\ arg.age < sessionTTL
            /\ \/ ~arg.autoRefresh
               \/ arg.stamped /\ arg.age * 100 < sessionTTL * refreshThresholdPct)

\* With autoRefresh on, a record exactly at the refresh threshold was
\* answered invalid.
C22_Witness ==
    /\ Applied("hasValidSession")
    /\ arg.held /\ arg.stamped /\ arg.autoRefresh
    /\ arg.age * 100 = sessionTTL * refreshThresholdPct
    /\ Answer = FALSE

\* C23: checkRateLimit(identifier, kind) leaves on the identifier's ledger
\* the entries that were within the window (60 s general, 3600 s login)
\* followed by the current time, answers allowed exactly when that ledger
\* holds at most the configured maximum, logs rate_limit_exceeded when it
\* does not, and leaves no ledger of the kind empty or with an entry older
\* than the window.
C23_CheckRateLimit ==
    [][monitor'.checks # monitor.checks =>
         LET kind == monitor'.last.kind
             identifier == monitor'.last.identifier
             windowMs == IF kind = "login" THEN 3600 ELSE 60
             most == IF kind = "login" THEN maxLoginAttemptsPerHour
                     ELSE maxRequestsPerMinute
             before == LogOf(monitor, kind)
             after == LogOf(monitor', kind)
             kept == SelectSeq(MapGet(before, identifier),
                               LAMBDA ts : now - ts <= windowMs)
         IN  /\ identifier \in DOMAIN after
             /\ after[identifier] = Append(kept, now)
             /\ monitor'.last.allowed <=> (Len(kept) + 1 <= most)
             /\ \A k \in DOMAIN after :
                    /\ after[k] # <<>>
                    /\ \A i \in 1..Len(after[k]) : now - after[k][i] <= windowMs
             /\ LogOf(monitor', IF kind = "login" THEN "general" ELSE "login")
                    = LogOf(monitor, IF kind = "login" THEN "general" ELSE "login")
             /\ IF monitor'.last.allowed
                THEN monitor'.activities = monitor.activities
                ELSE /\ Len(monitor'.activities) = Len(monitor.activities) + 1
                     /\ monitor'.activities[Len(monitor'.activities)].type
                            = "rate_limit_exceeded"]_vars

\* A general check was rejected after an older entry of the ledger had left
\* the window, and the ledger of the other identifier had been deleted.
C23_Witness ==
    /\ monitor.last.kind = "general" /\ ~monitor.last.allowed
    /\ Len(monitor.requestLog[monitor.last.identifier]) = maxRequestsPerMinute + 1
    /\ monitor.requestLog[monitor.last.identifier][1] > StartTime
    /\ DOMAIN monitor.requestLog = {monitor.last.identifier}
    /\ monitor.checks > maxRequestsPerMinute + 1

\* The operation calls sent by the requests that the callers are making or
\* have last made.
RECURSIVE SentBy(_)
SentBy(S) ==
    IF S = {} THEN 0
    ELSE LET c == CHOOSE x \in S : TRUE
         IN  (IF obs[c].kind = "request" THEN obs[c].attempts ELSE 0)
             + SentBy(S \ {c})

\* C24: one client sends at most maxRequestsPerMinute operation calls within
\* a minute; here, within the first instant of its life.
C24_GeneralLimitEnforced ==
    now = StartTime => SentBy(Callers) <= maxRequestsPerMinute

\* C25: the suspicious-activity buffer holds at most 200 records, and they
\* are the most recent ones in the order of their insertion.
C25_BufferKeepsLatest200 ==
    LET size == Len(monitor.activities)
    IN  /\ size <= 200
        /\ size = IF monitor.logged < 200 THEN monitor.logged ELSE 200
        /\ \A i \in 1..size :
               monitor.activities[i].id = monitor.logged - size + i

\* More than 200 activities were logged, some of them by rejected checks:
\* the buffer holds the last 200.
C25_Witness ==
    /\ monitor.logged > 200
    /\ monitor.checks > maxRequestsPerMinute
    /\ Len(monitor.activities) = 200
    /\ monitor.activities[1].id = monitor.logged - 199

\* The port of the config is an integer of 1..65535.
PortInRange(port) == port.t = "number" /\ port.n >= 1 /\ port.n <= 65535

\* C28: validateInboundConfig fails with the port-range error for every
\* given port that is not an integer of 1..65535; the config it returns has
\* each of settings, streamSettings, sniffing and allocate that was given as
\* an object replaced by its JSON string (settings {a:1} becomes '{"a":1}')
\* and each one given as a string unchanged.
C28_ValidateInboundConfig ==
    Applied("validateInboundConfig") =>
        /\ (arg.port.t # "undefined" /\ ~PortInRange(arg.port)) =>
               Answer.error = "Invalid port: must be an integer between 1 and 65535"
        /\ Answer.error = "" =>
               \A f \in JSONFields :
                   /\ arg[f].t = "object" =>
                          /\ Answer.value[f].t = "string"
                          /\ Answer.value[f].s = StringifyText(arg[f])
                   /\ arg[f].t = "string" => Answer.value[f] = arg[f]
        /\ (Answer.error = "" /\ arg.settings = Obj(<< <<"a", 1>> >>)) =>
               Answer.value.settings.s = <<"{", "\"", "a", "\"", ":", "1", "}">>
        /\ (/\ arg.port.t = "undefined" \/ PortInRange(arg.port)
            /\ arg.protocol.t # "number"
            /\ \A f \in JSONFields : arg[f].t # "circular") =>
               Answer.error = ""

\* A config with port 443 and settings {a:1} was validated: its settings
\* came back as the string '{"a":1}', its string field as it was.
C28_Witness ==
    /\ Applied("validateInboundConfig") /\ Answer.error = ""
    /\ arg.port = Num(443) /\ arg.settings = Obj(<< <<"a", 1>> >>)
    /\ Answer.value.settings = Str(<<"{", "\"", "a", "\"", ":", "1", "}">>)
    /\ arg.allocate.t = "string" /\ Answer.value.allocate = arg.allocate

\* C26: addInbound, updateInbound, addClient and updateClient, called with a
\* port outside 1..65535, without a client id, or with settings that cannot
\* be serialised, fail without sending anything and leave the token, the
\* stored session, the failed-login counter and the ledgers as they were.
C26_InvalidConfigRejectedFirst ==
    [][calls' # calls =>
         LET op == arg'.op
             config == arg'.config
             invalid ==
                 \/ /\ op \in {"addInbound", "updateInbound"}
                    /\ config.port.t # "undefined"
                    /\ ~PortInRange(config.port)
                 \/ /\ op \in {"addClient", "updateClient"}
                    /\ config.id.t \in {"undefined", "null"}
                 \/ config.settings.t = "circular"
         IN  invalid =>
                 /\ ans'[1].error # ""
                 /\ cookie' = cookie /\ cache' = cache /\ issued' = issued
                 /\ loginRetryCount' = loginRetryCount
                 /\ loginLog' = loginLog /\ monitor' = monitor
                 /\ loginMutex' = loginMutex
                 /\ \A c \in Callers :
                        /\ pc'[c] = pc[c]
                        /\ obs'[c] # obs[c] =>
                               /\ obs'[c].result = "invalid"
                               /\ obs'[c].attempts = 0
                               /\ obs'[c].netCalls = 0]_vars

\* A client that holds a token and a stored session has rejected an inbound
\* config whose port is 70000.
C26_Witness ==
    /\ Done(1) /\ obs[1].kind = "addInbound" /\ obs[1].result = "invalid"
    /\ arg.config.port = Num(70000)
    /\ cookie # 0 /\ StoreGet(cache, now).cookie = cookie
    /\ loginLog # <<>>

\* An argument of the constructor is missing, or the URL has no http or
\* https scheme.
BadArguments ==
    \/ arg.baseURL = <<>> \/ arg.username = <<>> \/ arg.password = <<>>
    \/ SchemeOf(TrimStart(arg.baseURL)) \notin {"http://", "https://"}

\* The text without one trailing slash.
LessOneSlash(text) ==
    IF text # <<>> /\ text[Len(text)] = "/"
    THEN [i \in 1..(Len(text) - 1) |-> text[i]] ELSE text

IsUuidV4(text) ==
    /\ Len(text) = 36
    /\ \A i \in 1..36 :
           IF i \in {9, 14, 19, 24} THEN text[i] = "-"
           ELSE text[i] \in {"0", "1", "2", "3", "4", "5", "6", "7", "8", "9",
                             "a", "b", "c", "d", "e", "f"}
    /\ text[15] = "4"
    /\ text[20] \in {"8", "9", "a", "b"}

\* C30: for every 16 random bytes generateSecureUUID gives a string of the
\* RFC-4122 v4 shape (13th hex digit 4, 17th one of 8, 9, a, b), and so does
\* generateUUID.
C30_UuidShape == Applied("generateUUID") => IsUuidV4(Answer.uuid)

\* generateSecureUUID was given 0xff at the indices 6 and 8: the digits that
\* follow the second and the third dash are 4f and bf.
C30_Witness ==
    /\ Applied("generateUUID") /\ Answer.by = "generateSecureUUID"
    /\ arg.byte6 = 255 /\ arg.byte8 = 255
    /\ SubSeq(Answer.uuid, 15, 16) = <<"4", "f">>
    /\ SubSeq(Answer.uuid, 20, 21) = <<"b", "f">>

\* The fields that make the record the one of the protocol.
OwnFields(tag) ==
    CASE tag = "vless" -> {"id", "flow"}
      [] tag = "vmess" -> {"id", "alterId"}
      [] tag = "trojan" -> {"password", "level"}
      [] tag \in {"shadowsocks", "shadowsocks2022"} -> {"method", "password"}
      [] tag = "wireguard" -> {"privateKey", "publicKey"}
      [] tag \in {"socks5", "http"} -> {"user", "pass"}
      [] OTHER -> {}

\* The record returned is the one of the protocol tag.
HasShapeOf(tag) ==
    /\ Answer.error = ""
    /\ OwnFields(tag) \subseteq DOMAIN Answer.value
    /\ \A other \in {"vless", "vmess", "trojan", "shadowsocks", "wireguard",
                      "socks5", "dokodemo-door"} :
           (OwnFields(other) \subseteq DOMAIN Answer.value) =>
               OwnFields(other) \subseteq OwnFields(tag)

\* The options are ones the generators of the protocols accept.
UsableOptions ==
    arg.protocol = "shadowsocks2022" =>
        arg.options.method \in {"", "2022-blake3-aes-128-gcm"}

\* C29 (as stated): generateForProtocol returns the record of the protocol
\* for each of the nine tags and fails with the unsupported-protocol error
\* for every other tag; for trojan with passwordLength = n the password has
\* n characters.
C29_ClosedSetOfTags ==
    (Applied("generateForProtocol") /\ UsableOptions) =>
        /\ arg.protocol \in {"vless", "vmess", "trojan", "shadowsocks",
                              "shadowsocks2022", "wireguard", "socks5", "http",
                              "dokodemo-door"} => HasShapeOf(arg.protocol)
        /\ arg.protocol \notin {"vless", "vmess", "trojan", "shadowsocks",
                                 "shadowsocks2022", "wireguard", "socks5",
                                 "http", "dokodemo-door"} =>
               Answer.error = "Unsupported protocol"
        /\ (arg.protocol = "trojan" /\ arg.options.passwordLength >= 1) =>
               Len(Answer.value.password) = arg.options.passwordLength

\* The tag in lower case, for the tags that have upper-case letters.
Lowered(tag) ==
    CASE tag = "VLESS" -> "vless"
      [] tag = "Trojan" -> "trojan"
      [] tag = "HTTP" -> "http"
      [] OTHER -> tag

\* C29 (amended): the tag is compared without regard to case: the record of
\* the protocol is returned for each tag whose lower-case form is one of the
\* nine, the unsupported-protocol error is thrown for every other tag; for
\* trojan the password has passwordLength characters when that is at least
\* 1, and 16 when it is 0 or not given.
C29_TagsWithoutRegardToCase ==
    (Applied("generateForProtocol") /\ UsableOptions) =>
        /\ Lowered(arg.protocol) \in
               {"vless", "vmess", "trojan", "shadowsocks", "shadowsocks2022",
                "wireguard", "socks5", "http", "dokodemo-door"} =>
               HasShapeOf(Lowered(arg.protocol))
        /\ Lowered(arg.protocol) \notin
               {"vless", "vmess", "trojan", "shadowsocks", "shadowsocks2022",
                "wireguard", "socks5", "http", "dokodemo-door"} =>
               Answer.error = "Unsupported protocol"
        /\ Lowered(arg.protocol) = "trojan" =>
               Len(Answer.value.password) =
                   IF arg.options.passwordLength >= 1
                   THEN arg.options.passwordLength ELSE 16

\* generateForProtocol('trojan', {passwordLength: 20}) returned a password of
\* 20 characters.
C29_Witness ==
    /\ Applied("generateForProtocol")
    /\ arg.protocol = "trojan" /\ arg.options.passwordLength = 20
    /\ Answer.error = "" /\ Len(Answer.value.password) = 20

\* C31: generatePassword(length, options) returns exactly length characters,
\* each of the selected character classes and, with excludeSimilar, none of
\* 0, O, 1, l, I; it fails when no character is left to draw from.
SelectedChars ==
    LET Of(on, class) == IF on THEN {class[i] : i \in 1..Len(class)} ELSE {}
        all == Of(arg.options.includeUppercase, Uppercase)
               \cup Of(arg.options.includeLowercase, Lowercase)
               \cup Of(arg.options.includeNumbers, Numbers)
               \cup Of(arg.options.includeSymbols, Symbols)
    IN IF arg.options.excludeSimilar
       THEN all \ {"0", "O", "1", "l", "I"} ELSE all

C31_PasswordOfTheSelectedChars ==
    Applied("generatePassword") =>
        IF SelectedChars = {}
        THEN Answer.error = "No character sets selected for password generation"
        ELSE /\ Answer.error = ""
             /\ Len(Answer.value) = arg.length
             /\ \A i \in 1..Len(Answer.value) : Answer.value[i] \in SelectedChars

\* A password of 16 characters has been generated without symbols and
\* without the similar characters, from a byte that would have selected "l".
C31_Witness ==
    /\ Applied("generatePassword")
    /\ arg.length = 16
    /\ ~arg.options.includeSymbols /\ arg.options.excludeSimilar
    /\ arg.options.includeUppercase /\ arg.options.includeLowercase
    /\ arg.options.includeNumbers
    /\ arg.first = 37
    /\ Len(Answer.value) = 16

\* C32: in the memory store a timeout scheduled by a set of a key never
\* removes an entry written later: every pending timeout is the one of the
\* entry its key holds now (a later set, a delete and a clear cancel it), and
\* a timeout that removes an entry removes the entry whose set scheduled it.
C32_TimerRemovesOnlyItsOwnEntry ==
    /\ \A timer \in mem.pending :
           /\ timer.key \in DOMAIN mem.cache
           /\ mem.cache[timer.key].gen = timer.id
    /\ (mem.last.op = "timer" /\ mem.last.removed # 0) =>
           mem.last.removed = mem.last.fired

\* A timeout has removed its entry after an earlier timeout was cancelled.
C32_Witness ==
    /\ mem.last.op = "timer"
    /\ mem.last.removed = mem.last.fired
    /\ mem.last.removed # 0
    /\ mem.cancelled > 0

\* C33: every record written by storeSession(baseURL, username, sessionData)
\* carries createdAt = the time of the write and the baseURL and username of
\* the pair whose key it is stored under, whatever fields sessionData has;
\* and every record that getSession answers for a pair names that pair.
C33_RecordNamesItsPair ==
    [][/\ (mem'.last.op = "storeSession" /\ mem'.sets # mem.sets) =>
            LET pair == mem'.last.key
                record == mem'.cache[GenerateSessionKey(pair.baseURL,
                                                        pair.username)].value
            IN  /\ record.createdAt = now
                /\ record.baseURL = pair.baseURL
                /\ record.username = pair.username
       /\ (mem'.last.op = "getSession" /\ mem'.last.answer # <<>>) =>
            /\ mem'.last.answer[1].baseURL = mem'.last.key.baseURL
            /\ mem'.last.answer[1].username = mem'.last.key.username]_vars

\* getSession has answered with a record whose sessionData named another
\* pair and another time.
C33_Witness ==
    /\ mem.last.op = "getSession"
    /\ mem.last.answer # <<>>
    /\ "loginTime" \notin DOMAIN mem.last.answer[1]
    /\ mem.last.answer[1].cookie = 7
    /\ mem.last.answer[1].baseURL = mem.last.key.baseURL

\* C34: a client that holds no token, and whose store holds a session of
\* its pair that is not stale, sends the operation call of its first request
\* with the stored token and without a network login.
C34_WarmStoreServesFirstRequest ==
    [][\A c \in Callers :
          (/\ obs'[c].kind = "request" /\ calls' = 1
           /\ obs[c].attempts = 0 /\ obs'[c].attempts = 1
           /\ ~obs'[c].elapsed
           /\ cache.cookie # 0 /\ cache.expires > now
           /\ (now - cache.createdAt) * 100 < sessionTTL * refreshThresholdPct
           /\ issued = 1) =>
              /\ obs'[c].netCalls = 0
              /\ obs'[c].sentWith = cache.cookie
              /\ issued' = 1]_vars

\* The first request of a client built with a Redis store has sent its
\* operation with the token another client stored, and no login was made.
C34_Witness ==
    /\ backend = "redis"
    /\ calls = 1 /\ pc[1] = "r_wait1"
    /\ obs[1].kind = "request" /\ obs[1].netCalls = 0
    /\ obs[1].sentWith = 1 /\ cookie = 1 /\ issued = 1
    /\ loginLog # <<>>

\* C35: every login() call appends its attempt to the login ledger before
\* the session cache is consulted, so a login served from the cache uses the
\* hourly budget too: a login() called with maxLoginAttemptsPerHour attempts
\* of the last hour on the ledger is rejected with the rate-limit error and
\* makes no network call, also when every one of them was served from cache.
C35_CachedLoginsUseTheBudget ==
    [][(calls' = calls + 1 /\ obs'[1].kind = "login") =>
          LET recent == SelectSeq(loginLog, LAMBDA ts : now - ts <= 3600)
          IN  /\ loginLog' = Append(recent, now)
              /\ Len(recent) >= maxLoginAttemptsPerHour =>
                     /\ obs'[1].result = "rateLimited"
                     /\ obs'[1].netCalls = 0
                     /\ pc'[1] = "idle"
                     /\ issued' = issued /\ cookie' = cookie]_vars

\* A login was rejected by the limiter although the client has made no
\* network login: the logins before it were served from the cache.
C35_Witness ==
    /\ Done(1) /\ obs[1].kind = "login" /\ obs[1].result = "rateLimited"
    /\ calls = maxLoginAttemptsPerHour + 1
    /\ Len(loginLog) = maxLoginAttemptsPerHour + 1
    /\ prev[1].kind = "login" /\ prev[1].result = "fromCache"
    /\ prev[1].netCalls = 0
    /\ issued = 1 /\ cookie = 1

\* C36: whatever the panel answers, one invocation of a wrapped operation
\* makes at most 2 calls of the operation and starts at most 2 logins, the
\* second only after a 401; the answer of the retry, a failure included, ends
\* the invocation without a further login or call.
C36_AtMostTwoCallsAndTwoLogins ==
    [][\A c \in Callers :
          /\ obs'[c].kind = "request" =>
                 /\ obs'[c].attempts <= 2
                 /\ obs'[c].logins <= 2
                 /\ obs'[c].logins = 2 => obs'[c].got401
                 /\ obs'[c].attempts = 0 => obs'[c].logins <= 1
          /\ (pc[c] = "r_wait2" /\ pc'[c] # "r_wait2") =>
                 /\ pc'[c] = "idle"
                 /\ obs'[c].result \in {"ok", "http401", "httpErr"}
                 /\ obs'[c].attempts = 2
                 /\ obs'[c].logins = obs[c].logins
                 /\ loginLog' = loginLog]_vars

\* A request has logged in before its first call and again after the 401,
\* and has ended on the 401 of its retry.
C36_Witness ==
    \E c \in Callers :
        /\ Done(c) /\ obs[c].kind = "request" /\ obs[c].result = "http401"
        /\ obs[c].attempts = 2 /\ obs[c].logins = 2 /\ obs[c].netCalls = 2

\* C37: provided every login attempt ends, a caller that waits in the polling
\* loop of _ensureAuthenticated eventually leaves the loop and its request
\* eventually completes, also when other callers keep acquiring the mutex.
C37_PollingCallerCompletes ==
    \A c \in Callers : (pc[c] = "r_poll") ~> (pc[c] = "idle")

\* The record that the store holds, unexpired and with a token, under the
\* key of client i's (baseURL, username) pair; <<>> when it holds none.
CachedFor(i) ==
    LET key == GenerateSessionKey(ClientOf[i].baseURL, ClientOf[i].username)
    IN  IF /\ key \in DOMAIN mem.cache
           /\ ~Expired(mem.cache[key], now)
           /\ "cookie" \in DOMAIN mem.cache[key].value
           /\ mem.cache[key].value.cookie # 0
        THEN <<mem.cache[key].value>>
        ELSE <<>>

\* Client i calls login(false) and the rate limiter lets the call pass.
LoginUnforced(i) ==
    /\ clients'[i].calls = clients[i].calls + 1
    /\ ~clients'[i].forced
    /\ Len(SelectSeq(clients[i].loginLog,
                     LAMBDA ts : now - ts <= loginWindow))
           < maxLoginAttemptsPerHour

\* C38: login(false) of a client whose (baseURL, username) pair has a live
\* record in the shared store restores the token of that record and answers
\* fromCache: true without a network login, whatever the client's password:
\* clients of one pair with different passwords restore the same token.
C38_CachePathIgnoresPassword ==
    [][\A i \in DOMAIN ClientOf :
          LoginUnforced(i) /\ CachedFor(i) # <<>> =>
              /\ clients'[i].cookie = CachedFor(i)[1].cookie
              /\ clients'[i].last = [result |-> "ok", fromCache |-> TRUE]
              /\ clients'[i].pc = "idle"]_vars

\* Client 1 has logged in over the network, and client 2, built with a
\* password that the panel does not know, holds client 1's token from the
\* cache.
C38_Witness ==
    /\ ClientOf[1].password # ClientOf[2].password
    /\ PairOf(1) = PairOf(2)
    /\ clients[1].cookie # 0
    /\ ~clients[1].last.fromCache
    /\ clients[2].cookie = clients[1].cookie
    /\ clients[2].last = [result |-> "ok", fromCache |-> TRUE]

\* The key under which the store holds the record of a pair.
KeyOfPair(pair) == GenerateSessionKey(pair.baseURL, pair.username)

Trailing(history, identifier, kind, t) ==
    SelectSeq(history,
              LAMBDA h : /\ h.identifier = identifier
                         /\ h.kind = kind
                         /\ t - h.at <= (IF kind = "login" THEN 3600 ELSE 60))

\* C40: the ledger of an identifier holds every attempt of the trailing
\* window, the rejected ones like the allowed ones; an attempt is rejected
\* exactly when it and the earlier attempts of the window, allowed or
\* rejected, are more than the maximum; an attempt with no earlier attempt
\* in the window that trails it is allowed.
C40_RejectedAttemptsCount ==
    [][monitor'.checks # monitor.checks =>
         LET kind == monitor'.last.kind
             identifier == monitor'.last.identifier
             most == IF kind = "login" THEN maxLoginAttemptsPerHour
                     ELSE maxRequestsPerMinute
             earlier == Trailing(monitor.history, identifier, kind, now)
         IN  /\ Len(LogOf(monitor', kind)[identifier]) = Len(earlier) + 1
             /\ ~monitor'.last.allowed <=> Len(earlier) + 1 > most
             /\ earlier = <<>> => monitor'.last.allowed]_vars

\* An attempt was rejected although fewer allowed attempts than the maximum
\* lie in its window: the rejected ones made up the number.  An earlier
\* attempt of the identifier had already left the window.
C40_Witness ==
    LET kind == monitor.last.kind
        identifier == monitor.last.identifier
        earlier == Trailing(SubSeq(monitor.history, 1, Len(monitor.history) - 1),
                            identifier, kind, now)
    IN  /\ monitor.history # <<>>
        /\ ~monitor.last.allowed
        /\ Len(SelectSeq(earlier, LAMBDA h : h.allowed))
               < (IF kind = "login" THEN maxLoginAttemptsPerHour
                  ELSE maxRequestsPerMinute)
        /\ \E i \in 1..Len(monitor.history) :
               /\ monitor.history[i].identifier = identifier
               /\ monitor.history[i].kind = kind
               /\ now - monitor.history[i].at
                      > (IF kind = "login" THEN 3600 ELSE 60)

=============================================================================
